---- MODULE Spec2Model ----
(***************************************************************************)
(* Trust-decision logic of the EUDI wallet functionality package:          *)
(*   - the DCQL subset matcher isDcqlQueryEqualOrSubset, in its two        *)
(*     variants (the pure one and the one taking an agent context),        *)
(*   - the registration certificate verifier verifyIfRegistrationCertificate*)
(*     and its orchestrator                                                *)
(*     verifyRegistrationCertificateInOpenid4VpAuthorizationRequest,       *)
(*   - the two disclosure-policy evaluators                                *)
(*     verifyAuthorizationForOpenid4VpAuthorizationRequest,                *)
(*   - the authorization attestation verifier                              *)
(*     verifyAuthorizationAttestation and the attribute-based access       *)
(*     control check validateAttributeBasedAccessControlPolicy,            *)
(*   - the JSON merge utility mergeJson and baseMergeConfig.               *)
(*                                                                         *)
(* JavaScript values are encoded as follows.  An optional value is a       *)
(* sequence of length 0 (undefined) or 1 (the value).  A doctype_value is  *)
(* a tagged record, so that its runtime type (typeof) is part of the value.*)
(***************************************************************************)
EXTENDS Integers, Sequences, FiniteSets, TLC

VARIABLES
    \* ---- matcher harness (specification SpecDcql)
    arq,            \* the authorization request query handed to the matcher
    rcq,            \* the reference query handed to the matcher
    pureOutcome,    \* "pending" | "returned"          (pure variant)
    pureResult,     \* boolean returned by the pure variant on (arq, rcq)
    pureSwapped,    \* boolean returned by the pure variant on (rcq, arq)
    ctxOutcome,     \* "pending" | "thrown" | "returned" (context variant)
    ctxResult,      \* boolean returned by the context variant on (arq, rcq)
    pureAccepted,   \* per request entry: its iteration of credentialQueryLoop moves on
    ctxAccepted,    \* the same for the context variant
    \* ---- registration certificate verification (specification Spec)
    options,        \* trustedCertificates / allowUntrustedSigned of the call
    request,        \* the resolved authorization request
    idx,            \* position of the orchestrator in verifier_attestations
    pc,             \* position of the running call
    cert,           \* what has been read of the registration certificate
    now,            \* new Date().getTime(), in milliseconds
    returnContext,  \* the result object under construction
    registrationCertificateResult, \* the orchestrator's result variable
    outcome,        \* "running" | "returned" | "thrown"
    error,          \* the error thrown, "" when none
    calls,          \* collaborator calls made by the running verifier call
    \* ---- disclosure policies (specification SpecPolicy)
    matchedCredentials,   \* the credentials about to be disclosed, with their stored policy
    policyRequest,        \* signer of the request, trusted roots given, verdict of the dcql library
    authorizationOutcome, \* outcome of the throw-mode evaluator
    disclosureOutcome,    \* outcome of the diagnostic-mode evaluator
    \* ---- mergeJson (specification SpecMerge)
    targetValue,    \* first argument of mergeJson
    sourceValue,    \* second argument
    configValue,    \* third argument
    merged,         \* what the call returned, or the error it threw
    \* ---- authorization attestations (specification SpecAttestation)
    attestationRequest,   \* the attestations of the request, its signer, the trust options
    attestationOutcome,   \* per attestation, how verifyAuthorizationAttestation ended
    accessControlOutcome  \* what validateAttributeBasedAccessControlPolicy returned

dcqlVars == <<arq, rcq, pureOutcome, pureResult, pureSwapped,
              ctxOutcome, ctxResult, pureAccepted, ctxAccepted>>
rcVars == <<options, request, idx, pc, cert, now, returnContext,
            registrationCertificateResult, outcome, error, calls>>
vars == <<arq, rcq, pureOutcome, pureResult, pureSwapped,
          ctxOutcome, ctxResult, pureAccepted, ctxAccepted,
          options, request, idx, pc, cert, now, returnContext,
          registrationCertificateResult, outcome, error, calls,
          matchedCredentials, policyRequest, authorizationOutcome, disclosureOutcome,
          targetValue, sourceValue, configValue, merged,
          attestationRequest, attestationOutcome, accessControlOutcome>>
policyVars == <<matchedCredentials, policyRequest, authorizationOutcome, disclosureOutcome>>
mergeVars == <<targetValue, sourceValue, configValue, merged>>
attestationVars == <<attestationRequest, attestationOutcome, accessControlOutcome>>

-----------------------------------------------------------------------------
(* Optional values                                                         *)

None == <<>>
Some(v) == <<v>>
IsSome(o) == Len(o) > 0
Get(o) == o[1]

\* A JavaScript string / number value carrying its typeof.
Str(s) == [t |-> "string", v |-> s]
Num(s) == [t |-> "number", v |-> s]

\* !x for a string or number value: the empty string and 0 are falsy.
Falsy(x) == (x.t = "string" /\ x.v = "") \/ (x.t = "number" /\ x.v = "0")

\* All sequences over S of length at most n.
SeqUpTo(S, n) == UNION {[1..k -> S] : k \in 0..n}

\* array[i] with a 0-based index: undefined when out of range.
At(array, i) == IF i + 1 <= Len(array) THEN Some(array[i + 1]) ELSE None

-----------------------------------------------------------------------------
(* Helpers imported from @credo-ts/core                                    *)

\* a.length === b.length && a.every((k) => b.includes(k))
equalsIgnoreOrder(a, b) ==
    /\ Len(a) = Len(b)
    /\ \A i \in 1..Len(a) : \E j \in 1..Len(b) : a[i] = b[j]

\* lhs.length === rhs.length && lhs.every((k, i) => k === rhs[i])
equalsWithOrder(lhs, rhs) ==
    /\ Len(lhs) = Len(rhs)
    /\ \A i \in 1..Len(lhs) : lhs[i] = rhs[i]

\* Structural equality of two JSON values.
deepEquality(a, b) == a = b

-----------------------------------------------------------------------------
(* DCQL queries                                                            *)

\* credentialQuery.meta?.doctype_value
metaDoctypeValue(c) == IF IsSome(c.meta) THEN Get(c.meta).doctype_value ELSE None

\* credentialQuery.meta?.vct_values
metaVctValues(c) == IF IsSome(c.meta) THEN Get(c.meta).vct_values ELSE None

\* the format gate of both variants
isSupportedFormat(format) ==
    format = "mso_mdoc" \/ format = "vc+sd-jwt" \/ format = "dc+sd-jwt"

\* rcq.credentials.filter((c) => c.format === credentialQuery.format)
matchingRcqCredentialQueriesBasedOnFormat(credentialQuery, rcqQuery) ==
    SelectSeq(rcqQuery.credentials, LAMBDA c : c.format = credentialQuery.format)

(* ---- claims of one request entry against one matched reference entry -- *)

\* mdoc: 'path' in c && matchedRequest.claims?.some((mrc) => 'path' in mrc &&
\*        c.path[0] === mrc.path[0] && c.path[1] === mrc.path[1])
isClaimAllowedMdoc(c, matchedRequest) ==
    /\ IsSome(c.path)
    /\ \E k \in 1..Len(Get(matchedRequest.claims)) :
          LET mrc == Get(matchedRequest.claims)[k] IN
          /\ IsSome(mrc.path)
          /\ At(Get(c.path), 0) = At(Get(mrc.path), 0)
          /\ At(Get(c.path), 1) = At(Get(mrc.path), 1)

\* sd-jwt: 'path' in c && matchedRequest.claims?.some((mrc) => 'path' in mrc &&
\*          equalsWithOrder(c.path, mrc.path))
isClaimAllowedSdJwt(c, matchedRequest) ==
    /\ IsSome(c.path)
    /\ \E k \in 1..Len(Get(matchedRequest.claims)) :
          LET mrc == Get(matchedRequest.claims)[k] IN
          /\ IsSome(mrc.path)
          /\ equalsWithOrder(Get(c.path), Get(mrc.path))

\* credentialQuery.claims.every(...) for mso_mdoc
isEveryClaimAllowedToBeRequestedMdoc(credentialQuery, matchedRequest) ==
    \A k \in 1..Len(Get(credentialQuery.claims)) :
        isClaimAllowedMdoc(Get(credentialQuery.claims)[k], matchedRequest)

\* credentialQuery.claims.every(...) for the sd-jwt formats
isEveryClaimAllowedToBeRequestedSdJwt(credentialQuery, matchedRequest) ==
    \A k \in 1..Len(Get(credentialQuery.claims)) :
        isClaimAllowedSdJwt(Get(credentialQuery.claims)[k], matchedRequest)

(* The loop `for (const matchedRequest of foundMatchingRequests)` from its *)
(* i-th candidate on, followed by `if (!foundFullyMatching) return false`. *)
(* TRUE: the request entry is accepted (continue credentialQueryLoop, or   *)
(* break with foundFullyMatching set); FALSE: the matcher returns false.   *)
RECURSIVE matchedRequestsLoopMdoc(_, _, _, _)
matchedRequestsLoopMdoc(credentialQuery, foundMatchingRequests, i, foundFullyMatching) ==
    IF i > Len(foundMatchingRequests) THEN foundFullyMatching
    ELSE LET matchedRequest == foundMatchingRequests[i] IN
         IF ~IsSome(matchedRequest.claims) THEN TRUE
         ELSE IF ~IsSome(credentialQuery.claims) THEN TRUE
         ELSE matchedRequestsLoopMdoc(
                 credentialQuery, foundMatchingRequests, i + 1,
                 IF isEveryClaimAllowedToBeRequestedMdoc(credentialQuery, matchedRequest)
                 THEN TRUE ELSE foundFullyMatching)

\* A faulty loop in which the first candidate alone decides; C29 fails with it.
matchedRequestsLoopSdJwtFirstCandidate(credentialQuery, foundMatchingRequests, i, foundFullyMatching) ==
    LET matchedRequest == foundMatchingRequests[1] IN
    IF ~IsSome(matchedRequest.claims) THEN TRUE
    ELSE IF ~IsSome(credentialQuery.claims) THEN TRUE
    ELSE isEveryClaimAllowedToBeRequestedSdJwt(credentialQuery, matchedRequest)

RECURSIVE matchedRequestsLoopSdJwt(_, _, _, _)
matchedRequestsLoopSdJwt(credentialQuery, foundMatchingRequests, i, foundFullyMatching) ==
    IF i > Len(foundMatchingRequests) THEN foundFullyMatching
    ELSE LET matchedRequest == foundMatchingRequests[i] IN
         IF ~IsSome(matchedRequest.claims) THEN TRUE
         ELSE IF ~IsSome(credentialQuery.claims) THEN TRUE
         ELSE matchedRequestsLoopSdJwt(
                 credentialQuery, foundMatchingRequests, i + 1,
                 IF isEveryClaimAllowedToBeRequestedSdJwt(credentialQuery, matchedRequest)
                 THEN TRUE ELSE foundFullyMatching)

(* ---- identity narrowing ----------------------------------------------- *)

\* A faulty narrowing that takes any mso_mdoc entry with a meta member,
\* whatever its doctype_value; C7 fails with it.
isMatchingRequestAnyDoctype(c, doctypeValue) ==
    /\ c.format = "mso_mdoc"
    /\ IsSome(c.meta)

\* c.format === 'mso_mdoc' && c.meta && c.meta.doctype_value === doctypeValue
isMatchingRequestMdoc(c, doctypeValue) ==
    /\ c.format = "mso_mdoc"
    /\ IsSome(c.meta)
    /\ Get(c.meta).doctype_value = Some(doctypeValue)

foundMatchingRequestsMdoc(credentialQuery, rcqQuery) ==
    SelectSeq(matchingRcqCredentialQueriesBasedOnFormat(credentialQuery, rcqQuery),
              LAMBDA c : isMatchingRequestMdoc(c, Get(metaDoctypeValue(credentialQuery))))

\* pure variant:
\* c.format === 'dc+sd-jwt' && c.meta?.vct_values && equalsIgnoreOrder(c.meta.vct_values, vctValues)
isMatchingRequestSdJwt(c, vctValues) ==
    /\ c.format = "dc+sd-jwt"
    /\ IsSome(metaVctValues(c))
    /\ equalsIgnoreOrder(Get(metaVctValues(c)), vctValues)

foundMatchingRequestsSdJwt(credentialQuery, rcqQuery) ==
    SelectSeq(matchingRcqCredentialQueriesBasedOnFormat(credentialQuery, rcqQuery),
              LAMBDA c : isMatchingRequestSdJwt(c, Get(metaVctValues(credentialQuery))))

\* context variant:
\* (c.format === 'dc+sd-jwt' || c.format === 'vc+sd-jwt') && c.meta?.vct_values &&
\*   equalsIgnoreOrder(c.meta.vct_values, vctValues)
isMatchingRequestSdJwtWithContext(c, vctValues) ==
    /\ (c.format = "dc+sd-jwt" \/ c.format = "vc+sd-jwt")
    /\ IsSome(metaVctValues(c))
    /\ equalsIgnoreOrder(Get(metaVctValues(c)), vctValues)

foundMatchingRequestsSdJwtWithContext(credentialQuery, rcqQuery) ==
    SelectSeq(matchingRcqCredentialQueriesBasedOnFormat(credentialQuery, rcqQuery),
              LAMBDA c : isMatchingRequestSdJwtWithContext(c, Get(metaVctValues(credentialQuery))))

(* ---- the cases of `switch (credentialQuery.format)` ------------------- *)
(* Each is TRUE when the loop moves on to the next request entry and FALSE *)
(* when the matcher returns false.                                         *)

caseMsoMdoc(credentialQuery, rcqQuery) ==
    LET doctypeValue == metaDoctypeValue(credentialQuery) IN
    IF ~IsSome(doctypeValue) \/ Falsy(Get(doctypeValue)) THEN FALSE
    ELSE IF Get(doctypeValue).t # "string" THEN FALSE
    ELSE LET foundMatchingRequests == foundMatchingRequestsMdoc(credentialQuery, rcqQuery) IN
         IF Len(foundMatchingRequests) = 0 THEN FALSE
         ELSE matchedRequestsLoopMdoc(credentialQuery, foundMatchingRequests, 1, FALSE)

\* pure variant: case 'dc+sd-jwt'
caseDcSdJwt(credentialQuery, rcqQuery) ==
    LET vctValues == metaVctValues(credentialQuery) IN
    IF ~IsSome(vctValues) \/ Len(Get(vctValues)) = 0 THEN FALSE
    ELSE LET foundMatchingRequests == foundMatchingRequestsSdJwt(credentialQuery, rcqQuery) IN
         IF Len(foundMatchingRequests) = 0 THEN FALSE
         ELSE matchedRequestsLoopSdJwt(credentialQuery, foundMatchingRequests, 1, FALSE)

\* context variant: case 'dc+sd-jwt': case 'vc+sd-jwt':
caseSdJwtWithContext(credentialQuery, rcqQuery) ==
    LET vctValues == metaVctValues(credentialQuery) IN
    IF ~IsSome(vctValues) THEN FALSE
    ELSE IF Len(Get(vctValues)) = 0 THEN FALSE
    ELSE LET foundMatchingRequests ==
                 foundMatchingRequestsSdJwtWithContext(credentialQuery, rcqQuery) IN
         IF Len(foundMatchingRequests) = 0 THEN FALSE
         ELSE matchedRequestsLoopSdJwt(credentialQuery, foundMatchingRequests, 1, FALSE)

(* ---- one iteration of credentialQueryLoop ----------------------------- *)

\* pure variant
credentialQueryLoopBody(credentialQuery, rcqQuery) ==
    IF Len(matchingRcqCredentialQueriesBasedOnFormat(credentialQuery, rcqQuery)) = 0
    THEN FALSE
    ELSE CASE credentialQuery.format = "mso_mdoc" -> caseMsoMdoc(credentialQuery, rcqQuery)
           [] credentialQuery.format = "dc+sd-jwt" -> caseDcSdJwt(credentialQuery, rcqQuery)
           [] OTHER -> FALSE

\* context variant
credentialQueryLoopBodyWithContext(credentialQuery, rcqQuery) ==
    IF Len(matchingRcqCredentialQueriesBasedOnFormat(credentialQuery, rcqQuery)) = 0
    THEN FALSE
    ELSE CASE credentialQuery.format = "mso_mdoc" -> caseMsoMdoc(credentialQuery, rcqQuery)
           [] credentialQuery.format \in {"dc+sd-jwt", "vc+sd-jwt"} ->
                  caseSdJwtWithContext(credentialQuery, rcqQuery)
           [] OTHER -> FALSE

(* ---- the two variants of the matcher ---------------------------------- *)

\* A faulty id gate that looks at the first reference entry only; C6 fails
\* with it.
firstCredentialHasId(rcqQuery) ==
    Len(rcqQuery.credentials) > 0 /\ IsSome(rcqQuery.credentials[1].id)

\* rcq.credentials.some((c) => c.id)
someCredentialHasId(rcqQuery) ==
    \E i \in 1..Len(rcqQuery.credentials) : IsSome(rcqQuery.credentials[i].id)

\* arq.credentials.some((c) => c.format is none of the three supported ones)
someFormatUnsupported(arqQuery) ==
    \E i \in 1..Len(arqQuery.credentials) : ~isSupportedFormat(arqQuery.credentials[i].format)

\* what dcqlService.validateDcqlQuery(arq) requires at least: an id on every entry
hasEveryCredentialAnId(arqQuery) ==
    \A i \in 1..Len(arqQuery.credentials) : IsSome(arqQuery.credentials[i].id)

\* A faulty two-argument variant that returns true for equal credentials
\* arrays ahead of the format gate; C1 fails with it.
isDcqlQueryEqualOrSubsetWithShortcut(arqQuery, rcqQuery) ==
    IF IsSome(rcqQuery.credential_sets) THEN FALSE
    ELSE IF someCredentialHasId(rcqQuery) THEN FALSE
    ELSE IF deepEquality(arqQuery.credentials, rcqQuery.credentials) THEN TRUE
    ELSE IF someFormatUnsupported(arqQuery) THEN FALSE
    ELSE \A i \in 1..Len(arqQuery.credentials) :
            credentialQueryLoopBody(arqQuery.credentials[i], rcqQuery)

\* A faulty two-argument variant without the id gate; C2 fails with it.
isDcqlQueryEqualOrSubsetIgnoringIds(arqQuery, rcqQuery) ==
    IF IsSome(rcqQuery.credential_sets) THEN FALSE
    ELSE IF someFormatUnsupported(arqQuery) THEN FALSE
    ELSE \A i \in 1..Len(arqQuery.credentials) :
            credentialQueryLoopBody(arqQuery.credentials[i], rcqQuery)

\* export function isDcqlQueryEqualOrSubset(arq, rcq): boolean
isDcqlQueryEqualOrSubset(arqQuery, rcqQuery) ==
    IF IsSome(rcqQuery.credential_sets) THEN FALSE
    ELSE IF someCredentialHasId(rcqQuery) THEN FALSE
    ELSE IF someFormatUnsupported(arqQuery) THEN FALSE
    ELSE \A i \in 1..Len(arqQuery.credentials) :
            credentialQueryLoopBody(arqQuery.credentials[i], rcqQuery)

\* export function isDcqlQueryEqualOrSubset(agentContext, arq, rcq): boolean,
\* once dcqlService.validateDcqlQuery(arq) has let the request query through
isDcqlQueryEqualOrSubsetWithContext(arqQuery, rcqQuery) ==
    IF IsSome(rcqQuery.credential_sets) THEN FALSE
    ELSE IF someCredentialHasId(rcqQuery) THEN FALSE
    ELSE IF deepEquality(arqQuery.credentials, rcqQuery.credentials) THEN TRUE
    ELSE IF someFormatUnsupported(arqQuery) THEN FALSE
    ELSE \A i \in 1..Len(arqQuery.credentials) :
            credentialQueryLoopBodyWithContext(arqQuery.credentials[i], rcqQuery)


-----------------------------------------------------------------------------
(* Inputs of the matcher                                                   *)

\* Largest number of credential entries of the two queries taken together.
MaxEntries == 3

Entry(format, id, meta, claims) ==
    [format |-> format, id |-> id, meta |-> meta, claims |-> claims]

Meta(doctype_value, vct_values) ==
    Some([doctype_value |-> doctype_value, vct_values |-> vct_values])

Query(credentials, credential_sets) ==
    [credentials |-> credentials, credential_sets |-> credential_sets]

Claim(path) == [path |-> path]

SupportedFormats == {"mso_mdoc", "vc+sd-jwt", "dc+sd-jwt"}
SdJwtFormats == {"vc+sd-jwt", "dc+sd-jwt"}
AllFormats == SupportedFormats \cup {"jwt_vc_json"}

\* A well-formed identity for each format.
IdentityMeta(format) ==
    CASE format = "mso_mdoc" -> Meta(Some(Str("org.iso.18013.5.1.mDL")), None)
      [] format \in SdJwtFormats -> Meta(None, Some(<<"PID">>))
      [] OTHER -> None

\* credential_sets: absent, or one set naming a credential id.
CredentialSetsValues == {None, Some(<< <<"pid">> >>)}

\* Entries that differ in format and id (the gates of the matcher).
GateEntries ==
    {Entry(f, id, IdentityMeta(f), None) : f \in AllFormats, id \in {None, Some("pid")}}

\* Entries that differ in identity.  vct_values are free of duplicates.
MdocMetas ==
    {Meta(None, None)} \cup
    {Meta(Some(d), None) :
        d \in {Str(""), Str("org.iso.18013.5.1.mDL"), Str("ORG.ISO.18013.5.1.MDL"), Num("7")}}
VctValues == {<<"PID">>, <<"PID", "eID">>, <<"eID", "PID">>}
IdentityEntries ==
    {Entry("mso_mdoc", None, m, None) : m \in MdocMetas} \cup
    {Entry(f, None, Meta(None, Some(v)), None) : f \in SdJwtFormats, v \in VctValues} \cup
    {Entry("dc+sd-jwt", None, m, None) : m \in {None, Meta(None, Some(<<>>))}}

\* Entries of one format and one identity that differ in claims.
GivenName == Claim(Some(<<"ns", "given_name">>))
FamilyName == Claim(Some(<<"ns", "family_name">>))
GivenNameDeep == Claim(Some(<<"ns", "given_name", "first">>))
NamespaceOnly == Claim(Some(<<"ns">>))
Pathless == Claim(None)
ClaimsValues ==
    {None, Some(<<>>), Some(<<GivenName>>), Some(<<FamilyName>>), Some(<<GivenNameDeep>>),
     Some(<<NamespaceOnly>>), Some(<<Pathless>>),
     Some(<<GivenName, FamilyName>>), Some(<<FamilyName, GivenName>>)}
ClaimEntries(format) ==
    {Entry(format, None, IdentityMeta(format), cl) : cl \in ClaimsValues}

\* The id of the i-th entry of a request query.
CredentialId(i) == <<"c1", "c2", "c3", "c4", "c5">>[i]

\* The entries with an id each, as a request query carries them.
WithIds(entries) ==
    [i \in 1..Len(entries) |-> [entries[i] EXCEPT !.id = Some(CredentialId(i))]]

\* The two queries are drawn with credentials over E, MaxEntries entries in
\* all at most, and credential_sets over S; for B = BOOLEAN the request is
\* drawn both as E has its entries and with an id on each.
DrawQueries(E, S, B) ==
    \E k \in 0..MaxEntries :
    \E j \in 0..(MaxEntries - k) :
    \E requested \in [1..k -> E], reference \in [1..j -> E], sa \in S, sr \in S :
    \E ids \in B :
        /\ arq = Query(IF ids THEN WithIds(requested) ELSE requested, sa)
        /\ rcq = Query(reference, sr)

-----------------------------------------------------------------------------
(* The matcher harness: the pure variant, then the context variant, are    *)
(* applied to the drawn inputs.                                            *)

InitDcql ==
    /\ \/ DrawQueries(GateEntries, CredentialSetsValues, {FALSE})
       \/ DrawQueries(IdentityEntries, {None}, BOOLEAN)
       \/ \E f \in SupportedFormats : DrawQueries(ClaimEntries(f), {None}, BOOLEAN)
    /\ pureOutcome = "pending" /\ pureResult = FALSE /\ pureSwapped = FALSE
    /\ ctxOutcome = "pending" /\ ctxResult = FALSE
    /\ pureAccepted = <<>> /\ ctxAccepted = <<>>

\* A call of the pure variant, and one with the two arguments swapped.
\* pureAccepted records what the iteration of credentialQueryLoop does on
\* each request entry.
CallPure ==
    /\ pureOutcome = "pending"
    /\ pureOutcome' = "returned"
    /\ pureResult' = isDcqlQueryEqualOrSubset(arq, rcq)
    /\ pureSwapped' = isDcqlQueryEqualOrSubset(rcq, arq)
    /\ pureAccepted' = [i \in 1..Len(arq.credentials) |->
                           credentialQueryLoopBody(arq.credentials[i], rcq)]
    /\ UNCHANGED <<arq, rcq, ctxOutcome, ctxResult, ctxAccepted>>

\* A call of the context variant.  dcqlService.validateDcqlQuery(arq) is a
\* collaborator: it throws for a request query with an entry that has no id
\* (line 122: "validate required the `id` property"), and may throw for any
\* other query it finds invalid.
CallWithContextThrows ==
    /\ pureOutcome = "returned"
    /\ ctxOutcome = "pending"
    /\ ctxOutcome' = "thrown"
    /\ UNCHANGED <<arq, rcq, pureOutcome, pureResult, pureSwapped, ctxResult,
                   pureAccepted, ctxAccepted>>

CallWithContext ==
    /\ pureOutcome = "returned"
    /\ ctxOutcome = "pending"
    /\ hasEveryCredentialAnId(arq)
    /\ ctxOutcome' = "returned"
    /\ ctxResult' = isDcqlQueryEqualOrSubsetWithContext(arq, rcq)
    /\ ctxAccepted' = [i \in 1..Len(arq.credentials) |->
                          credentialQueryLoopBodyWithContext(arq.credentials[i], rcq)]
    /\ UNCHANGED <<arq, rcq, pureOutcome, pureResult, pureSwapped, pureAccepted>>

-----------------------------------------------------------------------------
(* Registration certificates                                               *)

\* Longest verifier_attestations array.
MaxAttestations == 2
\* Largest iat (seconds) a registration certificate carries.
MaxIat == 3

\* new Date().getTime(): on a second boundary, and between two seconds.
NowValues == {2000, 2500}

RegistrarCertificate == "CN=German Registrar"
SelfSignedCertificate == "CN=Self Signed"
AccessCertificateSubject == "CN=funke-wallet.de"
OtherSubject == "CN=Other RP"

\* VerifyIfRegistrationCertificateReturnContext: `{ isValid: true }`
InitialReturnContext ==
    [isValid |-> TRUE,
     isSignedWithX509 |-> None,
     isAccessCertificateSubjectEqualToRegistrationCertificate |-> None,
     isTimestampValid |-> None,
     isJwsValid |-> None,
     isRegistrationCertificateQueryEqualOrSubsetOfAuthorizationRequestQuery |-> None,
     isDcqlUsed |-> None]

\* { isValid: false, isDcqlUsed: false }
NotDcqlContext == [InitialReturnContext EXCEPT !.isValid = FALSE, !.isDcqlUsed = Some(FALSE)]

\* { isValid: false, isSignedWithX509: false }
NotX509Context == [InitialReturnContext EXCEPT !.isValid = FALSE, !.isSignedWithX509 = Some(FALSE)]

\* A verifier attestation { format, data }.  data is an inline string or not;
\* typ is the header typ of the JWT the string parses to, undefined when the
\* string is no JWT.
Attestation(format, isString, typ) == [format |-> format, isString |-> isString, typ |-> typ]

AttestationValues ==
    {Attestation("jwt", TRUE, Some("rc-rp+jwt")),
     Attestation("jwt", TRUE, Some("dc+sd-jwt")),
     Attestation("jwt", TRUE, None),
     Attestation("dc+sd-jwt", TRUE, Some("rc-rp+jwt")),
     Attestation("jwt", FALSE, None)}

\* What nothing has been read of yet.
UnreadCertificate ==
    [signedBy |-> "unread", x5c |-> <<>>, trustedCertificates |-> <<>>, jws |-> "unverified",
     header |-> "unread", payload |-> None]

\* The DCQL queries of the authorization requests.
SdJwtClaim(name) == Claim(Some(<<name>>))
RequestQueryValues ==
    {Query(<<Entry(f, Some("pid"), IdentityMeta(f), Some(<<SdJwtClaim(n)>>))>>, None) :
        f \in SdJwtFormats, n \in {"given_name", "family_name"}}

\* The credentials of the registration certificates, as the payload carries
\* them: without claims, restricted to given_name, carrying an id, with an
\* empty claims array, and next to a credential_sets member.
PayloadQueryValues ==
    {Query(<<Entry(f, None, IdentityMeta(f), cl)>>, None) :
        f \in SdJwtFormats, cl \in {None, Some(<<SdJwtClaim("given_name")>>)}} \cup
    {Query(<<Entry("dc+sd-jwt", Some("pid"), IdentityMeta("dc+sd-jwt"), None)>>, None),
     Query(<<Entry("dc+sd-jwt", None, IdentityMeta("dc+sd-jwt"), Some(<<>>))>>, None),
     Query(<<Entry("dc+sd-jwt", None, IdentityMeta("dc+sd-jwt"), None)>>, Some(<< <<"pid">> >>))}

\* jwt.payload.toJson(): rest stands for the members other than credentials,
\* credential_sets, sub and iat (contact, services, privacy_policy, ...).
Payload(query, sub, iat, rest) == [query |-> query, sub |-> sub, iat |-> iat, rest |-> rest]

\* Every sub and iat with the credentials of the four plain shapes; the other
\* shapes, and a payload the schema rejects for its other members, with a
\* matching sub and no iat.
PlainPayloadQueryValues ==
    {q \in PayloadQueryValues :
        /\ ~IsSome(q.credential_sets)
        /\ ~IsSome(q.credentials[1].id)
        /\ q.credentials[1].claims # Some(<<>>)}

PayloadValues ==
    {Payload(q, sub, iat, "valid") :
        q \in PlainPayloadQueryValues,
        sub \in {AccessCertificateSubject, OtherSubject},
        iat \in {None} \cup {Some(t) : t \in 0..MaxIat}} \cup
    {Payload(q, AccessCertificateSubject, None, "valid") : q \in PayloadQueryValues} \cup
    {Payload(q, AccessCertificateSubject, None, "invalid") : q \in PlainPayloadQueryValues}

\* claims: z.array(z.object({ path: z.array(z.string()).nonempty() ... })).nonempty().optional()
claimsSchemaAccepts(claims) ==
    ~IsSome(claims) \/
    (/\ Len(Get(claims)) > 0
     /\ \A k \in 1..Len(Get(claims)) :
           IsSome(Get(claims)[k].path) /\ Len(Get(Get(claims)[k].path)) > 0)

\* registrationCertificatePayloadSchema accepts the payload
payloadSchemaAccepts(payload) ==
    /\ payload.rest = "valid"
    /\ \A i \in 1..Len(payload.query.credentials) :
          claimsSchemaAccepts(payload.query.credentials[i].claims)

\* z.object(...) of a credentials entry: format, meta and claims are kept, a
\* member the schema does not name (id) is stripped
parsedCredential(c) == [c EXCEPT !.id = None]

\* registrationCertificatePayloadSchema.parse(...), read as a DcqlQuery: the
\* top-level object is passthrough, so credential_sets stays
parsedPayloadQuery(payload) ==
    [credentials |-> [i \in 1..Len(payload.query.credentials) |->
                         parsedCredential(payload.query.credentials[i])],
     credential_sets |-> payload.query.credential_sets]

\* isRegistrationCertificate(format, jwt)
isRegistrationCertificate(va) ==
    IF va.format # "jwt" THEN FALSE
    ELSE IF ~IsSome(va.typ) THEN FALSE
    ELSE Get(va.typ) = "rc-rp+jwt"

\* isAuthorizationAttestation(format, jwt) of the disclosure-policy module
isAuthorizationAttestation(va) ==
    IF va.format # "eudi_registration_certifiate" THEN FALSE
    ELSE ~isRegistrationCertificate(va)

\* (!trustedCertificates || trustedCertificates.length === 0) && !allowUntrustedSigned
isMissingTrust(opts) ==
    /\ (~IsSome(opts.trustedCertificates) \/ Len(Get(opts.trustedCertificates)) = 0)
    /\ ~opts.allowUntrustedSigned

\* !dcql || presentation_definition || presentation_definition_uri
isNotDcql(req) ==
    ~IsSome(req.dcql) \/ req.presentation_definition \/ req.presentation_definition_uri

\* signedAuthorizationRequest?.signer.method !== 'x5c'
isNotSignedWithX5c(req) ==
    ~IsSome(req.signedAuthorizationRequest) \/ Get(req.signedAuthorizationRequest).method # "x5c"

\* a verifier that trusts the certificate's own x5c header whatever the options say
signatureTrustedCertificatesWithHeader(opts, x5c) ==
    (IF IsSome(opts.trustedCertificates) THEN Get(opts.trustedCertificates) ELSE <<>>) \o x5c

\* the certificates handed to verifySignature
signatureTrustedCertificates(opts, x5c) ==
    IF opts.allowUntrustedSigned
    THEN (IF IsSome(opts.trustedCertificates) THEN Get(opts.trustedCertificates) ELSE <<>>) \o x5c
    ELSE (IF IsSome(opts.trustedCertificates) THEN Get(opts.trustedCertificates) ELSE <<>>)

\* a freshness check that lets a certificate issued at this very instant pass
isIssuedStrictlyInTheFuture(iat, nowMs) ==
    IsSome(iat) /\ Get(iat) # 0 /\ nowMs < Get(iat) * 1000

\* parsedPayload.iat && new Date().getTime() / 1000 <= parsedPayload.iat
isIssuedInTheFuture(iat, nowMs) ==
    IsSome(iat) /\ Get(iat) # 0 /\ nowMs <= Get(iat) * 1000


-----------------------------------------------------------------------------
(* verifyRegistrationCertificateInOpenid4VpAuthorizationRequest and the     *)
(* verifyIfRegistrationCertificate calls it makes, statement by statement. *)

Signer(method, x5c) == [method |-> method, x5c |-> x5c]

TrustedCertificatesValues == {None, Some(<<>>), Some(<<RegistrarCertificate>>)}

VerifierAttestationsValues ==
    {None} \cup {Some(a) : a \in SeqUpTo(AttestationValues, MaxAttestations)}

DcqlValues == {None} \cup {Some(q) : q \in RequestQueryValues}

SignedAuthorizationRequestValues ==
    {None, Some(Signer("x5c", <<AccessCertificateSubject>>)), Some(Signer("jwk", <<>>))}

IdleDcql ==
    /\ arq = Query(<<>>, None) /\ rcq = Query(<<>>, None)
    /\ pureOutcome = "idle" /\ pureResult = FALSE /\ pureSwapped = FALSE
    /\ ctxOutcome = "idle" /\ ctxResult = FALSE
    /\ pureAccepted = <<>> /\ ctxAccepted = <<>>

InitRc ==
    /\ \E trustedCertificates \in TrustedCertificatesValues, allowUntrustedSigned \in BOOLEAN :
          options = [trustedCertificates |-> trustedCertificates,
                     allowUntrustedSigned |-> allowUntrustedSigned]
    /\ \E attestations \in VerifierAttestationsValues, pd \in BOOLEAN, pdUri \in BOOLEAN,
          dcql \in DcqlValues, signed \in SignedAuthorizationRequestValues :
          request = [verifier_attestations |-> attestations,
                     presentation_definition |-> pd,
                     presentation_definition_uri |-> pdUri,
                     dcql |-> dcql,
                     signedAuthorizationRequest |-> signed]
    /\ idx = 0
    /\ pc = "start"
    /\ cert = UnreadCertificate
    /\ now = 0
    /\ returnContext = InitialReturnContext
    /\ registrationCertificateResult = None
    /\ outcome = "running"
    /\ error = ""
    /\ calls = <<>>

IdleRc ==
    /\ options = [trustedCertificates |-> None, allowUntrustedSigned |-> FALSE]
    /\ request = [verifier_attestations |-> None, presentation_definition |-> FALSE,
                  presentation_definition_uri |-> FALSE, dcql |-> None,
                  signedAuthorizationRequest |-> None]
    /\ idx = 0
    /\ pc = "idle"
    /\ cert = UnreadCertificate
    /\ now = 0
    /\ returnContext = InitialReturnContext
    /\ registrationCertificateResult = None
    /\ outcome = "idle"
    /\ error = ""
    /\ calls = <<>>

\* throw new Error(message): nothing catches it, the orchestrator's promise rejects
Throw(message) ==
    /\ outcome' = "thrown"
    /\ error' = message
    /\ pc' = "done"

\* `return value` of verifyIfRegistrationCertificate, assigned to
\* registrationCertificateResult by the orchestrator, which goes on with the
\* next verifier attestation
ReturnToOrchestrator(value) ==
    /\ registrationCertificateResult' = Some(value)
    /\ idx' = idx + 1
    /\ pc' = "loop"

\* An orchestrator that takes a request without verifier attestations for an
\* error; C16 fails with it.
OrchestratorStartRejectsAbsent ==
    /\ pc = "start"
    /\ IF ~IsSome(request.verifier_attestations)
       THEN /\ Throw("verifier_attestations are required")
            /\ idx' = idx
       ELSE /\ pc' = "loop"
            /\ idx' = 1
            /\ UNCHANGED <<outcome, error>>
    /\ UNCHANGED <<options, request, cert, now, returnContext,
                   registrationCertificateResult, calls>>
    /\ UNCHANGED dcqlVars

\* if (!...verifier_attestations) return
OrchestratorStart ==
    /\ pc = "start"
    /\ IF ~IsSome(request.verifier_attestations)
       THEN /\ outcome' = "returned"
            /\ pc' = "done"
            /\ idx' = idx
       ELSE /\ pc' = "loop"
            /\ idx' = 1
            /\ outcome' = outcome
    /\ UNCHANGED <<options, request, cert, now, returnContext,
                   registrationCertificateResult, error, calls>>
    /\ UNCHANGED dcqlVars

\* for (const va of verifier_attestations) { ... } return registrationCertificateResult
\* The locals of a finished verifyIfRegistrationCertificate call are gone when
\* the loop goes on.
OrchestratorLoop ==
    /\ pc = "loop"
    /\ LET attestations == Get(request.verifier_attestations) IN
       IF idx > Len(attestations)
       THEN /\ outcome' = "returned"
            /\ pc' = "done"
            /\ UNCHANGED <<idx, error>>
       ELSE LET va == attestations[idx] IN
            IF ~va.isString
            THEN /\ Throw("Authorization Attestations of string are currently only supported")
                 /\ UNCHANGED idx
            ELSE IF isRegistrationCertificate(va)
            THEN /\ pc' = "call"
                 /\ UNCHANGED <<idx, outcome, error>>
            ELSE /\ idx' = idx + 1
                 /\ UNCHANGED <<pc, outcome, error>>
    /\ cert' = UnreadCertificate
    /\ calls' = <<>>
    /\ returnContext' = InitialReturnContext
    /\ now' = 0
    /\ UNCHANGED <<options, request, registrationCertificateResult>>
    /\ UNCHANGED dcqlVars

\* A faulty order of the first checks, the signer before DCQL; C8 fails
\* with it.
preliminaryOutcomeSignerFirst(opts, req) ==
    IF isMissingTrust(opts) THEN "throw"
    ELSE IF isNotSignedWithX5c(req) THEN "notX509"
    ELSE IF isNotDcql(req) THEN "notDcql"
    ELSE "verify"

\* A faulty order of the first checks, the trust inputs after the two early
\* exits; C10 fails with it.
preliminaryOutcomeTrustLast(opts, req) ==
    IF isNotDcql(req) THEN "notDcql"
    ELSE IF isNotSignedWithX5c(req) THEN "notX509"
    ELSE IF isMissingTrust(opts) THEN "throw"
    ELSE "verify"

\* lines 128-152: what verifyIfRegistrationCertificate does before it reads
\* the certificate: "throw", "notDcql", "notX509" or "verify"
preliminaryOutcome(opts, req) ==
    IF isMissingTrust(opts) THEN "throw"
    ELSE IF isNotDcql(req) THEN "notDcql"
    ELSE IF isNotSignedWithX5c(req) THEN "notX509"
    ELSE "verify"

\* lines 128-164: the call runs up to `await jwsService.verifyJws(...)`.  The
\* certificate is signed by the trusted registrar, by a key only its own x5c
\* header vouches for, or its signature does not verify.
VerifyIfRegistrationCertificate ==
    /\ pc = "call"
    /\ LET o == preliminaryOutcome(options, request) IN
       CASE o = "throw" ->
              /\ Throw("Either provide trusted certificates, or allow for untrusted signers")
              /\ UNCHANGED <<idx, registrationCertificateResult, cert, calls>>
         [] o = "notDcql" ->
              /\ ReturnToOrchestrator(NotDcqlContext)
              /\ UNCHANGED <<outcome, error, cert, calls>>
         [] o = "notX509" ->
              /\ ReturnToOrchestrator(NotX509Context)
              /\ UNCHANGED <<outcome, error, cert, calls>>
         [] OTHER ->
              /\ \E signedBy \in {"trusted", "self", "forged"} :
                    LET x5c == IF signedBy = "trusted" THEN <<RegistrarCertificate>>
                               ELSE <<SelfSignedCertificate>>
                    IN cert' = [cert EXCEPT
                                   !.signedBy = signedBy,
                                   !.x5c = x5c,
                                   !.trustedCertificates =
                                       signatureTrustedCertificates(options, x5c)]
              /\ calls' = <<"Jwt.fromSerializedJwt", "verifyJws">>
              /\ pc' = "verifyJws"
              /\ UNCHANGED <<idx, registrationCertificateResult, outcome, error>>
    /\ UNCHANGED <<options, request, now, returnContext>>
    /\ UNCHANGED dcqlVars

\* jwsService.verifyJws(agentContext, { jws, trustedCertificates: certs }):
\* valid when the signature verifies and its chain ends in one of certs
jwsVerifies(certificate, certs) ==
    /\ certificate.signedBy # "forged"
    /\ \E i \in 1..Len(certs) : certs[i] = certificate.x5c[1]

\* lines 166-180
contextAfterSignature(context, isJwsValid) ==
    IF ~isJwsValid
    THEN [context EXCEPT !.isValid = FALSE, !.isJwsValid = Some(FALSE)]
    ELSE context

\* a subject check that records the mismatch and leaves isValid alone
contextAfterSubjectFlagOnly(context, rpCertSubject, payload) ==
    IF rpCertSubject # payload.sub
    THEN [context EXCEPT
             !.isAccessCertificateSubjectEqualToRegistrationCertificate = Some(FALSE)]
    ELSE context

\* lines 185-191
contextAfterSubject(context, rpCertSubject, payload) ==
    IF rpCertSubject # payload.sub
    THEN [context EXCEPT
             !.isAccessCertificateSubjectEqualToRegistrationCertificate = Some(FALSE),
             !.isValid = FALSE]
    ELSE context

\* a freshness check that records the failure and leaves isValid alone; C22
\* fails with it
contextAfterTimestampFlagOnly(context, payload, nowMs) ==
    IF isIssuedInTheFuture(payload.iat, nowMs)
    THEN [context EXCEPT !.isTimestampValid = Some(FALSE)]
    ELSE context

\* lines 193-196
contextAfterTimestamp(context, payload, nowMs) ==
    IF isIssuedInTheFuture(payload.iat, nowMs)
    THEN [context EXCEPT !.isTimestampValid = Some(FALSE), !.isValid = FALSE]
    ELSE context

\* lines 200-204
contextAfterDcqlQuery(context, isValidDcqlQuery) ==
    IF ~isValidDcqlQuery
    THEN [context EXCEPT
             !.isValid = FALSE,
             !.isRegistrationCertificateQueryEqualOrSubsetOfAuthorizationRequestQuery =
                 Some(FALSE)]
    ELSE context

\* a verifier that stops at a failed signature check; C21 fails with it
contextAfterChecksShortCircuit(context, req, payload, nowMs) ==
    IF context.isJwsValid = Some(FALSE) THEN context
    ELSE contextAfterDcqlQuery(
             contextAfterTimestamp(
                 contextAfterSubject(context, Get(req.signedAuthorizationRequest).x5c[1],
                                     payload),
                 payload, nowMs),
             isDcqlQueryEqualOrSubset(Get(req.dcql), parsedPayloadQuery(payload)))

\* lines 185-206, once both schemas have accepted the certificate
contextAfterChecks(context, req, payload, nowMs) ==
    contextAfterDcqlQuery(
        contextAfterTimestamp(
            contextAfterSubject(context, Get(req.signedAuthorizationRequest).x5c[1], payload),
            payload, nowMs),
        isDcqlQueryEqualOrSubset(Get(req.dcql), parsedPayloadQuery(payload)))

\* lines 166-206: verifyJws settles (a signature that does not verify makes it
\* return isValid false or throw; both end in the same two assignments) and
\* the call runs to its end
VerifyJwsSettled ==
    /\ pc = "verifyJws"
    /\ \E how \in (IF jwsVerifies(cert, cert.trustedCertificates)
                   THEN {"valid"} ELSE {"invalid", "threw"}) :
       LET afterSignature == contextAfterSignature(InitialReturnContext, how = "valid") IN
       \E header \in {"valid", "invalid"} :
          IF header = "invalid"
          THEN /\ cert' = [cert EXCEPT !.jws = how, !.header = header]
               /\ calls' = Append(calls, "registrationCertificateHeaderSchema.parse")
               /\ returnContext' = afterSignature
               /\ Throw("ZodError")
               /\ UNCHANGED <<idx, registrationCertificateResult, now>>
          ELSE \E payload \in PayloadValues :
               /\ cert' = [cert EXCEPT !.jws = how, !.header = header,
                                       !.payload = Some(payload)]
               /\ IF ~payloadSchemaAccepts(payload)
                  THEN /\ calls' = calls \o <<"registrationCertificateHeaderSchema.parse",
                                              "registrationCertificatePayloadSchema.parse">>
                       /\ returnContext' = afterSignature
                       /\ Throw("ZodError")
                       /\ UNCHANGED <<idx, registrationCertificateResult, now>>
                  ELSE \E nowMs \in NowValues :
                       /\ now' = nowMs
                       /\ calls' = calls \o <<"registrationCertificateHeaderSchema.parse",
                                              "registrationCertificatePayloadSchema.parse",
                                              "X509Certificate.fromEncodedCertificate",
                                              "isDcqlQueryEqualOrSubset">>
                       /\ returnContext' =
                              contextAfterChecks(afterSignature, request, payload, nowMs)
                       /\ ReturnToOrchestrator(
                              contextAfterChecks(afterSignature, request, payload, nowMs))
                       /\ UNCHANGED <<outcome, error>>
    /\ UNCHANGED <<options, request>>
    /\ UNCHANGED dcqlVars

-----------------------------------------------------------------------------
(* Disclosure policies: the two evaluators that check the stored policy of  *)
(* every matched credential, verifyAuthorizationForOpenid4VpAuthorization-  *)
(* Request (throws on the first failure) and its namesake in               *)
(* verifyDisclosurePoliciesForOpenid4VpAuthorizationRequest.ts (returns a  *)
(* result object).                                                         *)

MaxMatchedCredentials == 2

TrustedSubject == "CN=Trusted RP"

\* A stored policy object.  allowList, allowlist and rootOfTrust hold the
\* member's value when the object has that key; attribute_based_access_control
\* tells whether the key is present (its query is evaluated by the dcql
\* library, whose verdict is an input of the call).
DisclosurePolicy(allowList, allowlist, rootOfTrust, abac) ==
    [allowList |-> allowList, allowlist |-> allowlist, rootOfTrust |-> rootOfTrust,
     attribute_based_access_control |-> abac]

\* What metadata.get(<key of the evaluator>) yields for a matched credential.
DisclosurePolicyValues ==
    {None,
     Some(DisclosurePolicy(None, Some(<<TrustedSubject>>), None, FALSE)),
     Some(DisclosurePolicy(Some(<<TrustedSubject>>), None, None, FALSE)),
     Some(DisclosurePolicy(Some(<<TrustedSubject>>), Some(<<TrustedSubject>>), None, FALSE)),
     Some(DisclosurePolicy(None, None, Some("CN=Root"), FALSE)),
     Some(DisclosurePolicy(None, None, None, TRUE)),
     Some(DisclosurePolicy(None, None, None, FALSE))}

\* Object.entries(matchedCredentials): the i-th entry has the i-th credential id
MatchedCredentials(policies) ==
    [i \in 1..Len(policies) |->
        [credentialId |-> CredentialId(i), disclosurePolicy |-> policies[i]]]

PolicySignerValues ==
    {None, Some(Signer("x5c", <<TrustedSubject>>)), Some(Signer("x5c", <<OtherSubject>>)),
     Some(Signer("jwk", <<>>))}

\* allowListPolicy.allowlist.includes(relyingPartyAccessCertificate.subject);
\* reading includes of a missing allowlist is a TypeError
validateAllowListPolicy(allowListPolicy, subject) ==
    IF ~IsSome(allowListPolicy.allowlist) THEN "TypeError"
    ELSE IF \E i \in 1..Len(Get(allowListPolicy.allowlist)) :
               Get(allowListPolicy.allowlist)[i] = subject
    THEN "true"
    ELSE "false"

validateRootOfTrustPolicy(rootOfTrustPolicy) == TRUE

PolicyPending == [status |-> "pending", error |-> [message |-> "", credentialId |-> ""],
                  result |-> None]
PolicyIdle == [PolicyPending EXCEPT !.status = "idle"]
PolicyReturned(result) == [PolicyPending EXCEPT !.status = "returned", !.result = result]
\* an error whose message ends in `credential id: ${credentialId}` when one is given
PolicyThrown(message, credentialId) ==
    [PolicyPending EXCEPT !.status = "thrown",
                          !.error = [message |-> message, credentialId |-> credentialId]]

RECURSIVE authorizationLoop(_, _, _)
\* throw-mode evaluator, lines 30-95: the loop from the i-th matched credential on
authorizationLoop(credentials, req, i) ==
    IF i > Len(credentials) THEN PolicyReturned(None)
    ELSE
    LET credentialId == credentials[i].credentialId
        disclosurePolicy == credentials[i].disclosurePolicy
        continue == authorizationLoop(credentials, req, i + 1)
    IN
    IF ~IsSome(disclosurePolicy) THEN continue
    ELSE IF IsSome(Get(disclosurePolicy).allowList)
    THEN IF ~IsSome(req.signedAuthorizationRequest)
         THEN PolicyThrown("Allow list was used and authorization request must be signed",
                           credentialId)
         ELSE IF Get(req.signedAuthorizationRequest).method # "x5c"
         THEN PolicyThrown("Allow list was used and authorization request must be signed with x5c to determine the access certificate",
                           credentialId)
         ELSE LET allowed == validateAllowListPolicy(Get(disclosurePolicy),
                                 Get(req.signedAuthorizationRequest).x5c[1])
              IN IF allowed = "TypeError" THEN PolicyThrown("TypeError", "")
                 ELSE IF allowed = "false"
                 THEN PolicyThrown("Allow list policy was used, but the relying party access certificate was not allowed to make the request",
                                   credentialId)
                 ELSE continue
    ELSE IF IsSome(Get(disclosurePolicy).rootOfTrust)
    THEN IF ~req.trustedRootCertificates
         THEN PolicyThrown("rootOfTrust disclosure policy found, but no trustedRootCertificates were provided",
                           credentialId)
         ELSE IF ~validateRootOfTrustPolicy(Get(disclosurePolicy))
         THEN PolicyThrown("allow list policy was used, but the rp access certificate was not allowed to make the request",
                           credentialId)
         ELSE continue
    ELSE IF Get(disclosurePolicy).attribute_based_access_control
    THEN IF ~req.isAttributeBasedAccessControlValid
         THEN PolicyThrown("Attribute based access control disclosure policy was found, but it did not match the dcql query in the authorization request",
                           credentialId)
         ELSE continue
    ELSE PolicyThrown("Found an unsupported disclosure policy", "")

\* diagnostic evaluator, lines 69-90: the entry written for one credential
disclosurePolicyEntry(disclosurePolicy, subject, isAttributeBasedAccessControlValid) ==
    [isAllowListPolicyValid |->
         IF IsSome(disclosurePolicy.allowList)
         THEN Some(validateAllowListPolicy(disclosurePolicy, subject) = "true")
         ELSE None,
     isRootOfTrustPolicyValid |->
         IF IsSome(disclosurePolicy.rootOfTrust)
         THEN Some(validateRootOfTrustPolicy(disclosurePolicy))
         ELSE None,
     isAttributeBasedAccessControlValid |->
         IF disclosurePolicy.attribute_based_access_control
         THEN Some(isAttributeBasedAccessControlValid)
         ELSE None]

\* diagnostic evaluator, lines 94-102: Object.values(err) holds two booleans
\* that are true here and the disclosurePolicies object, which maps to
\* Object.values(...).some(a flag is truthy)
isEveryValueNotFalse(disclosurePolicies) ==
    \E credentialId \in DOMAIN disclosurePolicies :
        \/ disclosurePolicies[credentialId].isAllowListPolicyValid = Some(TRUE)
        \/ disclosurePolicies[credentialId].isRootOfTrustPolicyValid = Some(TRUE)
        \/ disclosurePolicies[credentialId].isAttributeBasedAccessControlValid = Some(TRUE)

\* diagnostic evaluator, lines 48-104
verifyDisclosurePolicies(credentials, req) ==
    IF isNotSignedWithX5c(req)
    THEN PolicyReturned(Some([isValid |-> FALSE, isSignedWithX509 |-> FALSE,
                              disclosurePolicies |-> <<>>]))
    ELSE
    LET subject == Get(req.signedAuthorizationRequest).x5c[1]
        withPolicy == {i \in 1..Len(credentials) : IsSome(credentials[i].disclosurePolicy)}
        indexOf(credentialId) ==
            CHOOSE i \in withPolicy : credentials[i].credentialId = credentialId
        disclosurePolicies ==
            [credentialId \in {credentials[i].credentialId : i \in withPolicy} |->
                disclosurePolicyEntry(Get(credentials[indexOf(credentialId)].disclosurePolicy),
                                      subject, req.isAttributeBasedAccessControlValid)]
    IN
    IF \E i \in withPolicy :
          /\ IsSome(Get(credentials[i].disclosurePolicy).allowList)
          /\ validateAllowListPolicy(Get(credentials[i].disclosurePolicy), subject) = "TypeError"
    THEN PolicyThrown("TypeError", "")
    ELSE PolicyReturned(Some([isValid |-> isEveryValueNotFalse(disclosurePolicies),
                              isSignedWithX509 |-> TRUE,
                              disclosurePolicies |-> disclosurePolicies]))

InitPolicy ==
    /\ \E k \in 0..MaxMatchedCredentials : \E policies \in [1..k -> DisclosurePolicyValues] :
          matchedCredentials = MatchedCredentials(policies)
    /\ \E signed \in PolicySignerValues, roots \in BOOLEAN, abac \in BOOLEAN :
          policyRequest = [signedAuthorizationRequest |-> signed,
                           trustedRootCertificates |-> roots,
                           isAttributeBasedAccessControlValid |-> abac]
    /\ authorizationOutcome = PolicyPending
    /\ disclosureOutcome = PolicyPending

IdlePolicy ==
    /\ matchedCredentials = <<>>
    /\ policyRequest = [signedAuthorizationRequest |-> None,
                        trustedRootCertificates |-> FALSE,
                        isAttributeBasedAccessControlValid |-> FALSE]
    /\ authorizationOutcome = PolicyIdle
    /\ disclosureOutcome = PolicyIdle

\* verifyAuthorizationForOpenid4VpAuthorizationRequest, throw mode
VerifyAuthorizationForOpenid4VpAuthorizationRequest ==
    /\ authorizationOutcome.status = "pending"
    /\ authorizationOutcome' = authorizationLoop(matchedCredentials, policyRequest, 1)
    /\ UNCHANGED <<matchedCredentials, policyRequest, disclosureOutcome>>

\* verifyAuthorizationForOpenid4VpAuthorizationRequest, diagnostic mode
VerifyDisclosurePoliciesForOpenid4VpAuthorizationRequest ==
    /\ disclosureOutcome.status = "pending"
    /\ disclosureOutcome' = verifyDisclosurePolicies(matchedCredentials, policyRequest)
    /\ UNCHANGED <<matchedCredentials, policyRequest, authorizationOutcome>>

-----------------------------------------------------------------------------
(* mergeJson: the JSON structural merge used for metadata composition.      *)
(* A JSON value is a record with one field, named after its type:          *)
(* undefined, null, number, string, array (a sequence of values) or object  *)
(* (a function from the object's own keys to values).  Objects are compared *)
(* by their members; the order of the keys is not modelled.                 *)

MaxItems == 2

Undefined == [undefined |-> TRUE]
Null == [null |-> TRUE]
JsonNumber(n) == [number |-> n]
JsonString(s) == [string |-> s]
JsonBoolean(b) == [boolean |-> b]
Arr(items) == [array |-> items]
\* the name of the one field of a value
typeOf(value) == CHOOSE name \in DOMAIN value : TRUE
\* the object with the members <<key, value>> of the set pairs
Obj(pairs) ==
    [object |-> [key \in {p[1] : p \in pairs} |-> (CHOOSE p \in pairs : p[1] = key)[2]]]

\* what mergeRecursive yields when a validator throws
Thrown(message) == [thrown |-> message]

getType(value) ==
    IF typeOf(value) = "array" THEN "array"
    ELSE IF typeOf(value) = "object" THEN "object"
    ELSE "primitive"

\* obj[key]
Member(obj, key) == IF key \in DOMAIN obj.object THEN obj.object[key] ELSE Undefined

RECURSIVE deepEqual(_, _)
deepEqual(a, b) ==
    IF getType(a) = "primitive" /\ getType(b) = "primitive" /\ typeOf(a) = typeOf(b) /\ a = b
    THEN TRUE
    ELSE IF getType(a) # getType(b) THEN FALSE
    ELSE IF getType(a) = "array"
    THEN /\ Len(a.array) = Len(b.array)
         /\ \A i \in 1..Len(a.array) : deepEqual(a.array[i], b.array[i])
    ELSE IF getType(a) = "object"
    THEN /\ Cardinality(DOMAIN a.object) = Cardinality(DOMAIN b.object)
         /\ \A key \in DOMAIN a.object :
               key \in DOMAIN b.object /\ deepEqual(a.object[key], b.object[key])
    ELSE FALSE

\* defaultValidator(path, target, source): "" when it returns, else the error it throws
defaultValidator(target, source) ==
    IF typeOf(source) = "undefined" THEN ""
    ELSE IF typeOf(target) = "undefined" THEN ""
    ELSE IF typeOf(source) = "null"
    THEN (IF typeOf(target) # "null" THEN "cannot set non-nullable value to null" ELSE "")
    ELSE IF typeOf(target) = "null" THEN ""
    ELSE IF getType(target) # getType(source) THEN "Type mismatch"
    ELSE IF getType(target) = "primitive" /\ typeOf(target) # typeOf(source) THEN "Type mismatch"
    ELSE ""

\* A MergeConfig.  A strategy that is not set is ""; arrayDiscriminant and
\* items are optional; fields maps the configured keys to their MergeConfig.
\* validate names the rule of the field, "" when the field has none.  No
\* configuration of the model sets validator.
MergeConfig(objectStrategy, arrayStrategy, strategy, arrayDiscriminant, fields, items) ==
    [objectStrategy |-> objectStrategy, arrayStrategy |-> arrayStrategy,
     strategy |-> strategy, arrayDiscriminant |-> arrayDiscriminant,
     fields |-> fields, items |-> items, validate |-> ""]

\* { validate: <the rule> }
WithValidate(config, rule) == [config EXCEPT !.validate = rule]

\* a configuration whose 'mandatory' rule is missing; C30 fails with it
fieldValidateSdOnly(rule, target, source) ==
    IF rule = "sd" /\ target = JsonString("always") /\ source # JsonString("always")
    THEN "Constraint violation: 'sd' cannot change from 'always'"
    ELSE IF rule = "sd" /\ target = JsonString("never") /\ source # JsonString("never")
    THEN "Constraint violation: 'sd' cannot change from 'never'"
    ELSE ""

\* nodeConfig.validate(target, source) for the two rules of baseMergeConfig:
\* "" when the rule returns, else the message of the error it throws
fieldValidate(rule, target, source) ==
    IF rule = "sd" /\ target = JsonString("always") /\ source # JsonString("always")
    THEN "Constraint violation: 'sd' cannot change from 'always'"
    ELSE IF rule = "sd" /\ target = JsonString("never") /\ source # JsonString("never")
    THEN "Constraint violation: 'sd' cannot change from 'never'"
    ELSE IF rule = "mandatory" /\ target = JsonBoolean(TRUE) /\ source # JsonBoolean(TRUE)
    THEN "Constraint violation: 'mandatory' cannot change from true to false"
    ELSE ""

\* { ...wildcardConfig, ...specificConfig }
spreadConfig(wildcardConfig, specificConfig) ==
    WithValidate(MergeConfig(
        IF specificConfig.objectStrategy # "" THEN specificConfig.objectStrategy
        ELSE wildcardConfig.objectStrategy,
        IF specificConfig.arrayStrategy # "" THEN specificConfig.arrayStrategy
        ELSE wildcardConfig.arrayStrategy,
        IF specificConfig.strategy # "" THEN specificConfig.strategy
        ELSE wildcardConfig.strategy,
        IF IsSome(specificConfig.arrayDiscriminant) THEN specificConfig.arrayDiscriminant
        ELSE wildcardConfig.arrayDiscriminant,
        IF DOMAIN specificConfig.fields # {} THEN specificConfig.fields
        ELSE wildcardConfig.fields,
        IF IsSome(specificConfig.items) THEN specificConfig.items ELSE wildcardConfig.items),
        IF specificConfig.validate # "" THEN specificConfig.validate
        ELSE wildcardConfig.validate)

RECURSIVE mergeRecursive(_, _, _, _)
RECURSIVE mergeArrays(_, _, _, _, _)

\* mergeRecursive(target, source, nodeConfig, parentDefaults, path); nodeConfig
\* is optional, the path only words the error messages and is left out
mergeRecursive(target, source, nodeConfig, parentDefaults) ==
    IF typeOf(source) = "undefined" THEN target
    ELSE
    LET currentDefaults ==
            [objectStrategy |->
                 IF IsSome(nodeConfig) /\ Get(nodeConfig).objectStrategy # ""
                 THEN Get(nodeConfig).objectStrategy ELSE parentDefaults.objectStrategy,
             arrayStrategy |->
                 IF IsSome(nodeConfig) /\ Get(nodeConfig).arrayStrategy # ""
                 THEN Get(nodeConfig).arrayStrategy ELSE parentDefaults.arrayStrategy]
        \* lines 174-181: the rule of the field, then the global validator
        violated == IF IsSome(nodeConfig) /\ Get(nodeConfig).validate # ""
                    THEN fieldValidate(Get(nodeConfig).validate, target, source)
                    ELSE ""
        rejected == IF violated # "" THEN violated ELSE defaultValidator(target, source)
        strategy == IF IsSome(nodeConfig) THEN Get(nodeConfig).strategy ELSE ""
        arrayStrategy ==
            IF strategy # "" THEN strategy
            ELSE IF currentDefaults.arrayStrategy # "" THEN currentDefaults.arrayStrategy
            ELSE "replace"
        objectStrategy ==
            IF strategy # "" THEN strategy
            ELSE IF currentDefaults.objectStrategy # "" THEN currentDefaults.objectStrategy
            ELSE "merge"
        keys == DOMAIN target.object \cup DOMAIN source.object
        childNodeConfig(key) ==
            LET specificConfig ==
                    IF IsSome(nodeConfig) /\ key \in DOMAIN Get(nodeConfig).fields
                    THEN Some(Get(nodeConfig).fields[key]) ELSE None
                wildcardConfig == IF IsSome(nodeConfig) THEN Get(nodeConfig).items ELSE None
            IN IF IsSome(specificConfig) /\ IsSome(wildcardConfig)
               THEN Some(spreadConfig(Get(wildcardConfig), Get(specificConfig)))
               ELSE IF IsSome(specificConfig) THEN specificConfig ELSE wildcardConfig
        members ==
            [key \in keys |->
                mergeRecursive(Member(target, key), Member(source, key),
                               childNodeConfig(key), currentDefaults)]
    IN
    IF rejected # "" THEN Thrown(rejected)
    ELSE IF typeOf(target) = "undefined" THEN source
    ELSE IF typeOf(source) = "null" THEN Null
    ELSE IF typeOf(target) = "null" THEN source
    ELSE IF getType(target) # getType(source) THEN source
    ELSE IF getType(target) = "primitive" THEN source
    ELSE IF getType(source) = "array" /\ arrayStrategy = "replace" THEN source
    ELSE IF getType(source) = "array" /\ arrayStrategy = "append"
    THEN Arr(target.array \o source.array)
    ELSE IF getType(source) = "array" /\ arrayStrategy = "merge"
    THEN mergeArrays(target.array, source.array, nodeConfig, currentDefaults,
                     IF IsSome(nodeConfig) THEN Get(nodeConfig).arrayDiscriminant ELSE None)
    ELSE IF getType(source) = "object" /\ objectStrategy = "replace" THEN source
    ELSE IF getType(source) = "object" /\ objectStrategy = "merge"
    THEN IF \E key \in keys : typeOf(members[key]) = "thrown"
         THEN members[CHOOSE key \in keys : typeOf(members[key]) = "thrown"]
         ELSE [object |-> members]
    ELSE source

\* mergeArrays(target, source, arrayNodeConfig, defaults, path, discriminant)
\* on the two arrays' items; the discriminant is optional and holds the keys
\* (one for a string, several for an array of strings)
mergeArrays(targetItems, sourceItems, arrayNodeConfig, defaults, discriminant) ==
    LET itemNodeConfig == IF IsSome(arrayNodeConfig) THEN Get(arrayNodeConfig).items ELSE None
        \* lines 280-291: merge by index
        byIndex ==
            [i \in 1..(IF Len(sourceItems) > Len(targetItems)
                       THEN Len(sourceItems) ELSE Len(targetItems)) |->
                IF i <= Len(sourceItems) /\ i <= Len(targetItems)
                THEN mergeRecursive(targetItems[i], sourceItems[i], itemNodeConfig, defaults)
                ELSE IF i <= Len(targetItems) THEN targetItems[i] ELSE sourceItems[i]]
        \* lines 298-303: result.findIndex(...), 0 when there is none
        isMatch(targetItem, sourceItem) ==
            /\ getType(targetItem) = "object"
            /\ getType(sourceItem) = "object"
            /\ \A k \in 1..Len(Get(discriminant)) :
                  deepEqual(Member(targetItem, Get(discriminant)[k]),
                            Member(sourceItem, Get(discriminant)[k]))
        matchIndex(result, sourceItem) ==
            IF \E i \in 1..Len(result) : isMatch(result[i], sourceItem)
            THEN CHOOSE i \in 1..Len(result) :
                     /\ isMatch(result[i], sourceItem)
                     /\ \A j \in 1..(i - 1) : ~isMatch(result[j], sourceItem)
            ELSE 0
        \* lines 297-318: the loop over the source items, from the k-th one on
        RECURSIVE byDiscriminant(_, _)
        byDiscriminant(result, k) ==
            IF k > Len(sourceItems) THEN Arr(result)
            ELSE LET at == matchIndex(result, sourceItems[k]) IN
                 IF at = 0 THEN byDiscriminant(Append(result, sourceItems[k]), k + 1)
                 ELSE LET item == mergeRecursive(result[at], sourceItems[k],
                                                 itemNodeConfig, defaults)
                      IN IF typeOf(item) = "thrown" THEN item
                         ELSE byDiscriminant([result EXCEPT ![at] = item], k + 1)
    IN
    IF ~IsSome(discriminant)
    THEN IF \E i \in 1..Len(byIndex) : typeOf(byIndex[i]) = "thrown"
         THEN byIndex[CHOOSE i \in 1..Len(byIndex) :
                          /\ typeOf(byIndex[i]) = "thrown"
                          /\ \A j \in 1..(i - 1) : typeOf(byIndex[j]) # "thrown"]
         ELSE Arr(byIndex)
    ELSE byDiscriminant(targetItems, 1)

\* mergeJson(target, source, config); the config defaults to {}
mergeJson(target, source, config) ==
    mergeRecursive(target, source, Some(config),
                   [objectStrategy |-> config.objectStrategy,
                    arrayStrategy |-> config.arrayStrategy])

\* {} and the configurations the array tests pass
DefaultConfig == MergeConfig("", "", "", None, <<>>, None)
ConfigValues ==
    {DefaultConfig,
     MergeConfig("", "merge", "", None, <<>>, None),
     MergeConfig("", "merge", "", Some(<<"id">>), <<>>, None),
     MergeConfig("", "merge", "", Some(<<"id", "kind">>), <<>>, None),
     MergeConfig("", "merge", "", None,
                 [key \in {""} |-> MergeConfig("", "", "", Some(<<"id">>), <<>>, None)], None),
     MergeConfig("", "merge", "", None,
                 [key \in {""} |-> MergeConfig("", "", "", Some(<<"id", "kind">>), <<>>, None)],
                 None)}

\* values of every type, those of the tests among them
PlainValues ==
    {Undefined, Null, JsonNumber("1"), JsonNumber("2"), JsonString("a"),
     Obj({<<"a", JsonNumber("1")>>}),
     Arr(<<JsonNumber("1")>>),
     Obj({<<"a", JsonNumber("1")>>, <<"b", Obj({<<"c", JsonNumber("2")>>})>>}),
     Obj({<<"a", Null>>, <<"b", Null>>}),
     Obj({<<"b", JsonNumber("3")>>, <<"c", Arr(<<JsonNumber("4")>>)>>})}

\* items of the arrays merged by discriminant: id and kind may be missing
ItemValues ==
    {Obj({<<"id", id>>, <<"kind", kind>>, <<"val", val>>} \ {<<"id", Undefined>>, <<"kind", Undefined>>}) :
        id \in {JsonNumber("1"), JsonNumber("2"), Undefined}, kind \in {JsonString("A"), Undefined},
        val \in {JsonString("x")}} \cup
    {Obj({<<"id", JsonNumber("2")>>, <<"val", JsonString("y")>>}),
     Obj({<<"id", JsonNumber("3")>>, <<"val", JsonString("y")>>}),
     Obj({<<"kind", Undefined>>, <<"val", JsonString("y")>>}),
     JsonNumber("1")}

\* baseMergeConfig: display is replaced, claims are merged by path, and the
\* sd and mandatory members of a claim have a rule each
baseMergeConfig ==
    MergeConfig("", "", "", None,
        [key \in {"display", "claims"} |->
            IF key = "display"
            THEN MergeConfig("", "", "replace", None, <<>>, None)
            ELSE MergeConfig("", "", "merge", Some(<<"path">>), <<>>,
                     Some(MergeConfig("", "", "", None,
                              [rule \in {"sd", "mandatory"} |-> WithValidate(DefaultConfig, rule)],
                              None)))],
        None)

\* Largest number of claims of the parent and the child metadata taken together.
MaxClaims == 3

\* a claim of the metadata: its path, and sd and mandatory where it has them
ClaimMetadata(path, sd, mandatory) ==
    Obj({<<"path", Arr(<<JsonString(path)>>)>>, <<"sd", sd>>, <<"mandatory", mandatory>>}
        \ {<<"sd", Undefined>>, <<"mandatory", Undefined>>})

ClaimMetadataValues ==
    {ClaimMetadata(path, sd, Undefined) :
        path \in {"given_name", "family_name"},
        sd \in {Undefined, JsonString("always"), JsonString("never"), JsonString("allowed")}}
    \cup
    {ClaimMetadata(path, sd, JsonBoolean(mandatory)) :
        path \in {"given_name", "family_name"},
        sd \in {Undefined, JsonString("always")}, mandatory \in BOOLEAN}

\* { claims: [...] }
Metadata(claims) == Obj({<<"claims", Arr(claims)>>})

\* a parent and a child metadata are merged under baseMergeConfig
InitMetadata ==
    /\ \E k \in 0..MaxClaims :
       \E j \in 0..(MaxClaims - k) :
       \E parentClaims \in [1..k -> ClaimMetadataValues],
          childClaims \in [1..j -> ClaimMetadataValues] :
          /\ targetValue = Metadata(parentClaims)
          /\ sourceValue = Metadata(childClaims)
    /\ configValue = baseMergeConfig
    /\ merged = [pending |-> TRUE]

InitMergeJson ==
    /\ \/ /\ targetValue \in PlainValues
          /\ sourceValue \in PlainValues
          /\ configValue \in {DefaultConfig, MergeConfig("replace", "append", "", None, <<>>, None)}
       \/ \E k \in 0..MaxItems, j \in 0..MaxItems :
          \E targetItems \in [1..k -> ItemValues], sourceItems \in [1..j -> ItemValues] :
             /\ targetValue = Arr(targetItems)
             /\ sourceValue = Arr(sourceItems)
             /\ configValue \in ConfigValues
    /\ merged = [pending |-> TRUE]

IdleMergeJson ==
    /\ targetValue = Undefined
    /\ sourceValue = Undefined
    /\ configValue = DefaultConfig
    /\ merged = [idle |-> TRUE]

\* a call mergeJson(target, source, config) returns or throws
CallMergeJson ==
    /\ typeOf(merged) = "pending"
    /\ merged' = mergeJson(targetValue, sourceValue, configValue)
    /\ UNCHANGED <<targetValue, sourceValue, configValue>>

-----------------------------------------------------------------------------
(* Authorization attestations: verifyAuthorizationAttestation, which throws *)
(* on a failed check, its earlier form that returns a boolean, and          *)
(* validateAttributeBasedAccessControlPolicy, which calls the latter.       *)

MaxAuthorizationAttestations == 2

WantedVct == "urn:authorization"
OtherVct == "urn:other"

\* An authorization attestation (a compact SD-JWT): who signed it, the x5c of
\* its header, the sub and vct of its payload, and the verdict of
\* sdJwtService.verify, which a forged signature makes invalid.
AuthorizationAttestation(signedBy, sub, sdJwt, vct) ==
    [signedBy |-> signedBy,
     x5c |-> IF signedBy = "trusted" THEN <<RegistrarCertificate>>
             ELSE <<SelfSignedCertificate>>,
     sub |-> sub, sdJwt |-> sdJwt, vct |-> vct]

AuthorizationAttestationValues ==
    {AuthorizationAttestation(signedBy, sub, sdJwt, vct) :
        signedBy \in {"trusted", "self", "forged"},
        sub \in {AccessCertificateSubject, OtherSubject},
        sdJwt \in {"valid", "invalid"},
        vct \in {WantedVct, OtherVct}}
    \ {AuthorizationAttestation("forged", sub, "valid", vct) :
        sub \in {AccessCertificateSubject, OtherSubject}, vct \in {WantedVct, OtherVct}}

\* jwsService.verifyJws(agentContext, { jws, trustedCertificates: certs }):
\* "valid", or the way a failing verification ends, "invalid" or "threw"
verifyJws(attestation, certs, failure) ==
    IF jwsVerifies(attestation, certs) THEN "valid" ELSE failure

\* the try/catch around the two verifyJws calls: the two flags it assigns,
\* and whether the call inside the catch block threw
signatureFlags(attestation, opts, failure) ==
    LET trustedCertificates == IF opts.trustedCertificates = None THEN <<>>
                               ELSE Get(opts.trustedCertificates)
        first == verifyJws(attestation, trustedCertificates, failure)
        second == verifyJws(attestation, attestation.x5c, failure)
    IN
    IF first # "threw"
    THEN [isValidAndTrusted |-> first = "valid", isValidButUntrusted |-> FALSE,
          thrown |-> FALSE]
    ELSE IF ~opts.allowUntrustedSigned
    THEN [isValidAndTrusted |-> FALSE, isValidButUntrusted |-> FALSE, thrown |-> FALSE]
    ELSE [isValidAndTrusted |-> FALSE, isValidButUntrusted |-> second = "valid",
          thrown |-> second = "threw"]

\* a verifier that goes on after a subject mismatch; C26 fails with it
verifyAuthorizationAttestationIgnoringSubject(attestation, req) ==
    LET flags == signatureFlags(attestation, req.options, req.failure) IN
    IF flags.thrown THEN "verifyJws threw"
    ELSE IF ~IsSome(req.signedAuthorizationRequest)
    THEN "Authorization request must be signed for the authorization attestation"
    ELSE IF Get(req.signedAuthorizationRequest).method # "x5c"
    THEN "x5c is only supported for key derivation on the authorization request containing a authorization attestation"
    ELSE IF ~req.schemasAccept THEN "ZodError"
    ELSE IF attestation.sdJwt # "valid"
    THEN "Could not verify the sd-jwt authorization attestation"
    ELSE "returned"

\* verifyAuthorizationAttestation.ts lines 55-125: "returned" when the call
\* completes, otherwise the message of the error it throws.  The two flags
\* are assigned and never read.
verifyAuthorizationAttestation(attestation, req) ==
    LET flags == signatureFlags(attestation, req.options, req.failure) IN
    IF flags.thrown THEN "verifyJws threw"
    ELSE IF ~IsSome(req.signedAuthorizationRequest)
    THEN "Authorization request must be signed for the authorization attestation"
    ELSE IF Get(req.signedAuthorizationRequest).method # "x5c"
    THEN "x5c is only supported for key derivation on the authorization request containing a authorization attestation"
    ELSE IF ~req.schemasAccept THEN "ZodError"
    ELSE IF attestation.sub # Get(req.signedAuthorizationRequest).x5c[1]
    THEN "The Subject of the Authorization Attestation should equal the distinguished of the Relying Party"
    ELSE IF attestation.sdJwt # "valid"
    THEN "Could not verify the sd-jwt authorization attestation"
    ELSE "returned"

\* the earlier verifyAuthorizationAttestation, which takes the access
\* certificate and returns a boolean: "true", "false" or "thrown"
verifyAuthorizationAttestationBoolean(attestation, accessCertificateSubject, req) ==
    LET flags == signatureFlags(attestation, req.options, req.failure) IN
    IF flags.thrown THEN "thrown"
    ELSE IF ~req.schemasAccept THEN "thrown"
    ELSE IF attestation.sub # accessCertificateSubject THEN "false"
    ELSE IF attestation.sdJwt = "valid" THEN "true" ELSE "false"

\* the DcqlCredential pushed for an attestation
credentialOf(attestation) ==
    [credential_format |-> "dc+sd-jwt", vct |-> attestation.vct]

\* Query.query(policy, credentials).canBeSatisfied for a policy that asks for
\* one dc+sd-jwt credential of the wanted vct
canBeSatisfied(credentials) ==
    \E i \in 1..Len(credentials) :
        /\ credentials[i].credential_format = "dc+sd-jwt"
        /\ credentials[i].vct = WantedVct

RECURSIVE accessControlLoop(_, _, _, _)
\* validateAttributeBasedAccessControlPolicy, the loop from the i-th
\* attestation on: the value the verifier returns is dropped, an error it
\* throws ends the call in the catch block
accessControlLoop(attestations, req, i, credentials) ==
    IF i > Len(attestations) THEN canBeSatisfied(credentials)
    ELSE IF verifyAuthorizationAttestationBoolean(
                attestations[i], Get(req.signedAuthorizationRequest).x5c[1], req) = "thrown"
    THEN FALSE
    ELSE accessControlLoop(attestations, req, i + 1,
                           Append(credentials, credentialOf(attestations[i])))

validateAttributeBasedAccessControlPolicy(attestations, req) ==
    accessControlLoop(attestations, req, 1, <<>>)

InitAttestation ==
    /\ \E attestations \in SeqUpTo(AuthorizationAttestationValues, MaxAuthorizationAttestations),
          trustedCertificates \in {Some(<<>>), Some(<<RegistrarCertificate>>)},
          allowUntrustedSigned \in BOOLEAN,
          signed \in SignedAuthorizationRequestValues,
          failure \in {"invalid", "threw"},
          schemasAccept \in BOOLEAN :
          attestationRequest =
              [authorizationAttestations |-> attestations,
               options |-> [trustedCertificates |-> trustedCertificates,
                            allowUntrustedSigned |-> allowUntrustedSigned],
               signedAuthorizationRequest |-> signed,
               failure |-> failure,
               schemasAccept |-> schemasAccept]
    /\ attestationOutcome = None
    /\ accessControlOutcome = "pending"

IdleAttestation ==
    /\ attestationRequest =
           [authorizationAttestations |-> <<>>,
            options |-> [trustedCertificates |-> None, allowUntrustedSigned |-> FALSE],
            signedAuthorizationRequest |-> None,
            failure |-> "invalid",
            schemasAccept |-> FALSE]
    /\ attestationOutcome = None
    /\ accessControlOutcome = "idle"

\* verifyAuthorizationAttestation is called on every authorization
\* attestation of the request; the i-th outcome is that of the i-th call
VerifyAuthorizationAttestation ==
    /\ attestationOutcome = None
    /\ attestationOutcome' =
           Some([i \in 1..Len(attestationRequest.authorizationAttestations) |->
                   verifyAuthorizationAttestation(
                       attestationRequest.authorizationAttestations[i], attestationRequest)])
    /\ UNCHANGED <<attestationRequest, accessControlOutcome>>

\* the diagnostic evaluator, which has returned already unless the request is
\* signed with x5c, calls validateAttributeBasedAccessControlPolicy
ValidateAttributeBasedAccessControlPolicy ==
    /\ accessControlOutcome = "pending"
    /\ accessControlOutcome' =
           IF isNotSignedWithX5c(attestationRequest) THEN "not called"
           ELSE IF validateAttributeBasedAccessControlPolicy(
                       attestationRequest.authorizationAttestations, attestationRequest)
           THEN "true" ELSE "false"
    /\ UNCHANGED <<attestationRequest, attestationOutcome>>

NextRc ==
    \/ OrchestratorStart /\ UNCHANGED <<policyVars, mergeVars, attestationVars>>
    \/ OrchestratorLoop /\ UNCHANGED <<policyVars, mergeVars, attestationVars>>
    \/ VerifyIfRegistrationCertificate /\ UNCHANGED <<policyVars, mergeVars, attestationVars>>
    \/ VerifyJwsSettled /\ UNCHANGED <<policyVars, mergeVars, attestationVars>>

NextDcql ==
    \/ CallPure /\ UNCHANGED <<rcVars, policyVars, mergeVars, attestationVars>>
    \/ CallWithContextThrows /\ UNCHANGED <<rcVars, policyVars, mergeVars, attestationVars>>
    \/ CallWithContext /\ UNCHANGED <<rcVars, policyVars, mergeVars, attestationVars>>

NextPolicy ==
    \/ VerifyAuthorizationForOpenid4VpAuthorizationRequest
          /\ UNCHANGED <<dcqlVars, rcVars, mergeVars, attestationVars>>
    \/ VerifyDisclosurePoliciesForOpenid4VpAuthorizationRequest
          /\ UNCHANGED <<dcqlVars, rcVars, mergeVars, attestationVars>>

NextMerge == CallMergeJson /\ UNCHANGED <<dcqlVars, rcVars, policyVars, attestationVars>>

NextAttestation ==
    \/ VerifyAuthorizationAttestation /\ UNCHANGED <<dcqlVars, rcVars, policyVars, mergeVars>>
    \/ ValidateAttributeBasedAccessControlPolicy
          /\ UNCHANGED <<dcqlVars, rcVars, policyVars, mergeVars>>

Init == InitRc /\ IdleDcql /\ IdlePolicy /\ IdleMergeJson /\ IdleAttestation

InitMatcher == InitDcql /\ IdleRc /\ IdlePolicy /\ IdleMergeJson /\ IdleAttestation

InitDisclosurePolicies == InitPolicy /\ IdleDcql /\ IdleRc /\ IdleMergeJson /\ IdleAttestation

InitMerge == InitMergeJson /\ IdleDcql /\ IdleRc /\ IdlePolicy /\ IdleAttestation

InitMetadataMerge == InitMetadata /\ IdleDcql /\ IdleRc /\ IdlePolicy /\ IdleAttestation

InitAttestations == InitAttestation /\ IdleDcql /\ IdleRc /\ IdlePolicy /\ IdleMergeJson

Spec == Init /\ [][NextRc]_vars

SpecDcql == InitMatcher /\ [][NextDcql]_vars

SpecPolicy == InitDisclosurePolicies /\ [][NextPolicy]_vars

SpecMerge == InitMerge /\ [][NextMerge]_vars

SpecAttestation == InitAttestations /\ [][NextAttestation]_vars

SpecMetadata == InitMetadataMerge /\ [][NextMerge]_vars

-----------------------------------------------------------------------------
(* Properties of the matcher (checked under SpecDcql)                      *)
(* The vocabulary below restates the rules of DCQL subset matching without *)
(* the operators of the matcher, so that a property compares the code with *)
(* the rule and not with itself.                                           *)

Elements(s) == {s[i] : i \in 1..Len(s)}

PureReturned == pureOutcome = "returned"
ContextReturned == ctxOutcome = "returned"

\* the query declares credential_sets, or one of its entries an id
DeclaresCredentialSets(q) == q.credential_sets # None
DeclaresAnId(q) == \E c \in Elements(q.credentials) : c.id # None

\* the request names a format outside mso_mdoc, vc+sd-jwt and dc+sd-jwt
NamesOtherFormat(q) ==
    \E c \in Elements(q.credentials) : c.format \notin {"mso_mdoc", "vc+sd-jwt", "dc+sd-jwt"}

\* the doctype_value of an entry, when it is a non-empty string
DoctypeOf(c) ==
    IF c.meta = None THEN None
    ELSE IF Get(c.meta).doctype_value = None THEN None
    ELSE IF Get(Get(c.meta).doctype_value).t # "string" THEN None
    ELSE IF Get(Get(c.meta).doctype_value).v = "" THEN None
    ELSE Some(Get(Get(c.meta).doctype_value).v)

\* the set of vct_values of an entry, when there is at least one
VctOf(c) ==
    IF c.meta = None THEN None
    ELSE IF Get(c.meta).vct_values = None THEN None
    ELSE IF Get(Get(c.meta).vct_values) = <<>> THEN None
    ELSE Some(Elements(Get(Get(c.meta).vct_values)))

\* the identity of an entry under its format
IdentityOf(c) ==
    IF c.format = "mso_mdoc" THEN DoctypeOf(c)
    ELSE IF c.format \in {"vc+sd-jwt", "dc+sd-jwt"} THEN VctOf(c)
    ELSE None

\* reference entries of the same format and the same identity as request entry e
Candidates(e, q) ==
    {c \in Elements(q.credentials) :
        c.format = e.format /\ IdentityOf(e) # None /\ IdentityOf(c) = IdentityOf(e)}

\* claim a of a request entry of the given format is covered by claim b
ClaimCoveredBy(format, a, b) ==
    /\ a.path # None
    /\ b.path # None
    /\ IF format = "mso_mdoc"
       THEN /\ At(Get(a.path), 0) = At(Get(b.path), 0)
            /\ At(Get(a.path), 1) = At(Get(b.path), 1)
       ELSE Get(a.path) = Get(b.path)

\* candidate c alone covers every claim of request entry e
CoversAllClaims(e, c) ==
    \A a \in Elements(Get(e.claims)) :
        \E b \in Elements(Get(c.claims)) : ClaimCoveredBy(e.format, a, b)

\* C1: when a request entry names a format other than mso_mdoc, vc+sd-jwt and
\* dc+sd-jwt, the matcher returns false, whatever else the two queries hold,
\* also when the reference is structurally identical to the request.
C1_UnsupportedFormatIsRejected ==
    NamesOtherFormat(arq) =>
        /\ PureReturned => ~pureResult
        /\ ContextReturned => ~ctxResult

\* a reference identical to the request, and nothing but the format to refuse
C1_IdenticalUnsupportedRejected ==
    /\ PureReturned
    /\ arq = rcq
    /\ Len(arq.credentials) > 0
    /\ NamesOtherFormat(arq)
    /\ ~DeclaresCredentialSets(rcq)
    /\ ~DeclaresAnId(rcq)
    /\ ~pureResult

PureHandles(q) ==
    \A c \in Elements(q.credentials) :
        /\ c.format \in {"mso_mdoc", "dc+sd-jwt"}
        /\ IdentityOf(c) # None
        /\ c.claims # None => \A a \in Elements(Get(c.claims)) : a.path # None

C2_ValidatedQueryRejectedItself ==
    /\ ContextReturned
    /\ arq = rcq
    /\ Len(arq.credentials) > 0
    /\ \A c \in Elements(arq.credentials) : c.format = "dc+sd-jwt" /\ IdentityOf(c) # None
    /\ ~ctxResult
    /\ ~pureResult

C2_NeverValidatedQueryRejectedItself == ~C2_ValidatedQueryRejectedItself

\* The relation is not symmetric: a pair it accepts one way and rejects the other.
C2_SwapChangesResult ==
    /\ PureReturned
    /\ arq # rcq
    /\ ~DeclaresAnId(arq)
    /\ pureResult
    /\ ~pureSwapped

C2_NeverAsymmetric == ~C2_SwapChangesResult

IsSupported(e) == e.format \in {"mso_mdoc", "vc+sd-jwt", "dc+sd-jwt"}

HasClaimlessCandidate(e, q) == \E c \in Candidates(e, q) : c.claims = None

\* C3: for each of the three supported formats, a request entry is accepted,
\* whatever claims it asks for, when the reference holds an entry of the same
\* format and identity that declares no claims; a request of such entries
\* alone is accepted as a whole.
C3_ClaimlessCandidateAllowsEveryClaim ==
    /\ \A i \in 1..Len(arq.credentials) :
          LET e == arq.credentials[i] IN
          (IsSupported(e) /\ HasClaimlessCandidate(e, rcq)) =>
              /\ PureReturned => pureAccepted[i]
              /\ ContextReturned => ctxAccepted[i]
    /\ (/\ ~DeclaresCredentialSets(rcq)
        /\ ~DeclaresAnId(rcq)
        /\ \A e \in Elements(arq.credentials) :
              IsSupported(e) /\ HasClaimlessCandidate(e, rcq)) =>
              /\ PureReturned => pureResult
              /\ ContextReturned => ctxResult

\* The same with the two-argument variant held to mso_mdoc and dc+sd-jwt entries.
C3_ExceptVcSdJwtInPure ==
    \A i \in 1..Len(arq.credentials) :
        LET e == arq.credentials[i] IN
        (IsSupported(e) /\ HasClaimlessCandidate(e, rcq)) =>
            /\ (PureReturned /\ e.format # "vc+sd-jwt") => pureAccepted[i]
            /\ ContextReturned => ctxAccepted[i]

\* request entry e declares claims and so does every reference entry of its
\* format and identity, of which there is at least one
IsOverAskingCase(e, q) ==
    /\ IsSupported(e)
    /\ e.claims # None
    /\ Candidates(e, q) # {}
    /\ \A c \in Candidates(e, q) : c.claims # None

IsCoveredByOneCandidate(e, q) == \E c \in Candidates(e, q) : CoversAllClaims(e, c)

\* C5: when a request entry and all its candidates declare claims, the entry
\* is accepted exactly when one single candidate covers every requested
\* claim; otherwise the matcher returns false.
C5_OverAskingNeedsOneCoveringCandidate ==
    \A i \in 1..Len(arq.credentials) :
        LET e == arq.credentials[i] IN
        IsOverAskingCase(e, rcq) =>
            /\ PureReturned =>
                  /\ pureAccepted[i] <=> IsCoveredByOneCandidate(e, rcq)
                  /\ ~IsCoveredByOneCandidate(e, rcq) => ~pureResult
            /\ ContextReturned =>
                  /\ ctxAccepted[i] <=> IsCoveredByOneCandidate(e, rcq)
                  /\ ~IsCoveredByOneCandidate(e, rcq) => ~ctxResult

\* The same with the two-argument variant held to mso_mdoc and dc+sd-jwt entries.
C5_ExceptVcSdJwtInPure ==
    \A i \in 1..Len(arq.credentials) :
        LET e == arq.credentials[i] IN
        IsOverAskingCase(e, rcq) =>
            /\ (PureReturned /\ e.format # "vc+sd-jwt") =>
                  /\ pureAccepted[i] <=> IsCoveredByOneCandidate(e, rcq)
                  /\ ~IsCoveredByOneCandidate(e, rcq) => ~pureResult
            /\ ContextReturned =>
                  /\ ctxAccepted[i] <=> IsCoveredByOneCandidate(e, rcq)
                  /\ ~IsCoveredByOneCandidate(e, rcq) => ~ctxResult

-----------------------------------------------------------------------------
(* Properties of the registration certificate verifier (checked under Spec) *)

\* a verifier attestation the orchestrator hands to verifyIfRegistrationCertificate
IsRegistrationCertificateAttestation(va) ==
    va.isString /\ va.format = "jwt" /\ va.typ = Some("rc-rp+jwt")

CarriesRegistrationCertificate(req) ==
    /\ req.verifier_attestations # None
    /\ \E va \in Elements(Get(req.verifier_attestations)) :
          IsRegistrationCertificateAttestation(va)

\* a call of verifyIfRegistrationCertificate has just returned to the orchestrator
CallReturned ==
    /\ pc = "loop"
    /\ idx > 1
    /\ IsRegistrationCertificateAttestation(Get(request.verifier_attestations)[idx - 1])
    /\ registrationCertificateResult # None

\* a call of verifyIfRegistrationCertificate has thrown
CallThrew ==
    /\ outcome = "thrown"
    /\ IsRegistrationCertificateAttestation(Get(request.verifier_attestations)[idx])

TrustSupplied(opts) ==
    \/ opts.allowUntrustedSigned
    \/ (opts.trustedCertificates # None /\ Get(opts.trustedCertificates) # <<>>)

UsesDcql(req) ==
    req.dcql # None /\ ~req.presentation_definition /\ ~req.presentation_definition_uri

UsesPresentationExchange(req) ==
    req.dcql = None /\ (req.presentation_definition \/ req.presentation_definition_uri)

SignedWithX5c(req) ==
    /\ req.signedAuthorizationRequest # None
    /\ Get(req.signedAuthorizationRequest).method = "x5c"

\* the result has isValid false, the named flag false, and no other field
HasOnlyDcqlFlag(r) ==
    /\ r.isValid = FALSE
    /\ r.isDcqlUsed = Some(FALSE)
    /\ r.isSignedWithX509 = None
    /\ r.isAccessCertificateSubjectEqualToRegistrationCertificate = None
    /\ r.isTimestampValid = None
    /\ r.isJwsValid = None
    /\ r.isRegistrationCertificateQueryEqualOrSubsetOfAuthorizationRequestQuery = None

HasOnlyX509Flag(r) ==
    /\ r.isValid = FALSE
    /\ r.isSignedWithX509 = Some(FALSE)
    /\ r.isDcqlUsed = None
    /\ r.isAccessCertificateSubjectEqualToRegistrationCertificate = None
    /\ r.isTimestampValid = None
    /\ r.isJwsValid = None
    /\ r.isRegistrationCertificateQueryEqualOrSubsetOfAuthorizationRequestQuery = None

\* Scenario 1: a DCQL request for the given_name of a vc+sd-jwt PID, signed
\* with x5c, and a certificate of the trusted registrar for the same subject,
\* issued in the past, that allows the PID without naming claims.
IsScenarioOne ==
    /\ options.trustedCertificates = Some(<<RegistrarCertificate>>)
    /\ request.dcql =
           Some(Query(<<Entry("vc+sd-jwt", Some("pid"), Meta(None, Some(<<"PID">>)),
                                Some(<<Claim(Some(<<"given_name">>))>>))>>, None))
    /\ ~request.presentation_definition
    /\ ~request.presentation_definition_uri
    /\ request.signedAuthorizationRequest = Some(Signer("x5c", <<AccessCertificateSubject>>))
    /\ cert.signedBy = "trusted"
    /\ cert.jws = "valid"
    /\ cert.header = "valid"
    /\ cert.payload =
           Some(Payload(Query(<<Entry("vc+sd-jwt", None, Meta(None, Some(<<"PID">>)), None)>>,
                              None),
                        AccessCertificateSubject, Some(1), "valid"))

\* C4: in scenario 1 the verifier returns a result with isValid true.
C4_ScenarioOneIsValid ==
    (IsScenarioOne /\ CallReturned) => Get(registrationCertificateResult).isValid

C8_ReturnedNotX509 ==
    /\ CallReturned
    /\ TrustSupplied(options)
    /\ UsesDcql(request)
    /\ ~SignedWithX5c(request)
    /\ HasOnlyX509Flag(Get(registrationCertificateResult))

C8_NeverReturnedNotX509 == ~C8_ReturnedNotX509

\* C9: a request that uses presentation exchange instead of DCQL and carries
\* a registration certificate makes the orchestrator throw: it never returns.
C9_PresentationExchangeIsRejected ==
    (UsesPresentationExchange(request) /\ CarriesRegistrationCertificate(request)) =>
        outcome # "returned"

\* C10: when trustedCertificates is absent or empty and allowUntrustedSigned
\* is not set, verifyIfRegistrationCertificate throws the configuration error
\* for every request, before anything else, and returns no result.
C10_ConfigurationError ==
    ~TrustSupplied(options) =>
        /\ registrationCertificateResult = None
        /\ calls = <<>>
        /\ pc # "verifyJws"
        /\ CallThrew =>
              error = "Either provide trusted certificates, or allow for untrusted signers"
        /\ outcome = "returned" => ~CarriesRegistrationCertificate(request)

\* the error thrown for a request that would otherwise take an early exit
C10_ThrewConfigurationError ==
    /\ ~TrustSupplied(options)
    /\ ~UsesDcql(request)
    /\ CallThrew
    /\ error = "Either provide trusted certificates, or allow for untrusted signers"

\* a call of verifyIfRegistrationCertificate has run all its checks and returned
ChecksReturned == CallReturned /\ cert.payload # None

CertificateSubject == Get(cert.payload).sub
CertificateIat == Get(cert.payload).iat
AccessCertificateSubjectOfRequest == Get(request.signedAuthorizationRequest).x5c[1]

\* C11: when the sub of the registration certificate differs from the subject
\* of the first x5c certificate that signed the authorization request, the
\* result has isAccessCertificateSubjectEqualToRegistrationCertificate false
\* and isValid false; it never has isValid true.
C11_SubjectBinding ==
    (ChecksReturned /\ CertificateSubject # AccessCertificateSubjectOfRequest) =>
        /\ Get(registrationCertificateResult)
               .isAccessCertificateSubjectEqualToRegistrationCertificate = Some(FALSE)
        /\ ~Get(registrationCertificateResult).isValid

\* a certificate for another relying party whose every other check passes
C11_OnlySubjectDiffers ==
    /\ ChecksReturned
    /\ CertificateSubject = OtherSubject
    /\ AccessCertificateSubjectOfRequest = AccessCertificateSubject
    /\ LET r == Get(registrationCertificateResult) IN
          /\ r.isAccessCertificateSubjectEqualToRegistrationCertificate = Some(FALSE)
          /\ ~r.isValid
          /\ r.isJwsValid = None
          /\ r.isTimestampValid = None
          /\ r.isRegistrationCertificateQueryEqualOrSubsetOfAuthorizationRequestQuery = None

\* C12: a certificate whose iat is at or after the current time in seconds
\* (also when both are equal) gets isTimestampValid false and isValid false;
\* one whose iat lies before the current time, or that has no iat, passes the
\* freshness check.
C12_Freshness ==
    ChecksReturned =>
        LET r == Get(registrationCertificateResult) IN
        IF IsSome(CertificateIat) /\ Get(CertificateIat) * 1000 >= now
        THEN r.isTimestampValid = Some(FALSE) /\ ~r.isValid
        ELSE r.isTimestampValid = None

\* a certificate issued at this very second
C12_IssuedNow ==
    /\ ChecksReturned
    /\ IsSome(CertificateIat)
    /\ Get(CertificateIat) * 1000 = now
    /\ Get(registrationCertificateResult).isTimestampValid = Some(FALSE)
    /\ ~Get(registrationCertificateResult).isValid

\* a certificate issued one second ago passes
C12_IssuedOneSecondAgo ==
    /\ ChecksReturned
    /\ IsSome(CertificateIat)
    /\ (Get(CertificateIat) + 1) * 1000 = now
    /\ Get(registrationCertificateResult).isTimestampValid = None

C12_NeverIssuedOneSecondAgo == ~C12_IssuedOneSecondAgo

TrustedCertificatesOf(opts) ==
    IF opts.trustedCertificates = None THEN <<>> ELSE Get(opts.trustedCertificates)

\* C13: without allowUntrustedSigned the signature is checked against
\* trustedCertificates only, so a certificate that only its own x5c header
\* vouches for gets isJwsValid false; with allowUntrustedSigned the trust set
\* is trustedCertificates together with the header's x5c, so the same
\* certificate, correctly signed, passes the signature check even when no
\* trustedCertificates are given.
C13_TwoTierTrust ==
    ChecksReturned =>
        LET r == Get(registrationCertificateResult) IN
        /\ ~options.allowUntrustedSigned =>
              /\ cert.trustedCertificates = TrustedCertificatesOf(options)
              /\ cert.signedBy = "self" => (r.isJwsValid = Some(FALSE) /\ ~r.isValid)
        /\ options.allowUntrustedSigned =>
              /\ cert.trustedCertificates = TrustedCertificatesOf(options) \o cert.x5c
              /\ cert.signedBy = "self" => r.isJwsValid = None

\* a self-asserted certificate accepted without any trusted certificate
C13_SelfAssertedAccepted ==
    /\ ChecksReturned
    /\ options.allowUntrustedSigned
    /\ options.trustedCertificates = None
    /\ cert.signedBy = "self"
    /\ Get(registrationCertificateResult).isJwsValid = None
    /\ Get(registrationCertificateResult).isValid

\* the same certificate refused when only the registrar is trusted
C13_SelfAssertedRefused ==
    /\ ChecksReturned
    /\ ~options.allowUntrustedSigned
    /\ cert.signedBy = "self"
    /\ Get(registrationCertificateResult).isJwsValid = Some(FALSE)

C13_NeverSelfAssertedRefused == ~C13_SelfAssertedRefused

\* C14: for every verifier attestation with format 'jwt' and an inline string,
\* isAuthorizationAttestation is true if and only if isRegistrationCertificate
\* is false.
C14_ExactlyOneKind ==
    request.verifier_attestations # None =>
        \A va \in Elements(Get(request.verifier_attestations)) :
            (va.format = "jwt" /\ va.isString /\ va.typ # None) =>
                (isAuthorizationAttestation(va) <=> ~isRegistrationCertificate(va))

\* the request holds a verifier attestation the entry point does not support
HasUnsupportedAttestation(req) ==
    /\ req.verifier_attestations # None
    /\ \E va \in Elements(Get(req.verifier_attestations)) :
          va.format # "jwt" \/ ~va.isString

\* C15: a request with a verifier attestation whose format is not 'jwt' or
\* whose data is not an inline string, wherever it stands in the list, makes
\* the entry point throw: the call never returns.
C15_UnsupportedAttestationIsRejected ==
    HasUnsupportedAttestation(request) => outcome # "returned"

\* C16: a request without verifier_attestations makes the entry point return
\* undefined: it does not throw and calls no verifier, whatever the trust
\* options, the signer and the query language of the request.
C16_NoAttestationsIsNoOp ==
    request.verifier_attestations = None =>
        /\ pc \in {"idle", "start", "done"}
        /\ pc = "done" => outcome = "returned"
        /\ outcome # "thrown"
        /\ registrationCertificateResult = None
        /\ calls = <<>>

\* returned for a request that no verifier would have accepted
C16_ReturnedUndefined ==
    /\ request.verifier_attestations = None
    /\ ~TrustSupplied(options)
    /\ ~UsesDcql(request)
    /\ ~SignedWithX5c(request)
    /\ outcome = "returned"
    /\ registrationCertificateResult = None
    /\ calls = <<>>

-----------------------------------------------------------------------------
(* Properties of the disclosure-policy evaluators (checked under SpecPolicy) *)

ThrowModeDone == authorizationOutcome.status \in {"returned", "thrown"}
DiagnosticModeDone == disclosureOutcome.status \in {"returned", "thrown"}

PolicySignedWithX5c ==
    /\ policyRequest.signedAuthorizationRequest # None
    /\ Get(policyRequest.signedAuthorizationRequest).method = "x5c"

PolicySignerSubject == Get(policyRequest.signedAuthorizationRequest).x5c[1]

\* the stored policy is an allow-list as the policy type declares it: { allowlist: [...] }
IsAllowlistPolicy(p) ==
    /\ p # None
    /\ Get(p).allowlist # None
    /\ Get(p).allowList = None
    /\ Get(p).rootOfTrust = None
    /\ ~Get(p).attribute_based_access_control

\* the only policies stored with the matched credentials are allow-lists
OnlyAllowlistPolicies ==
    /\ \E i \in 1..Len(matchedCredentials) :
          IsAllowlistPolicy(matchedCredentials[i].disclosurePolicy)
    /\ \A i \in 1..Len(matchedCredentials) :
          \/ matchedCredentials[i].disclosurePolicy = None
          \/ IsAllowlistPolicy(matchedCredentials[i].disclosurePolicy)

\* the credentials whose allow-list does not hold the signer's subject verbatim
RefusingCredentials ==
    {i \in 1..Len(matchedCredentials) :
        /\ IsAllowlistPolicy(matchedCredentials[i].disclosurePolicy)
        /\ PolicySignerSubject \notin
               Elements(Get(Get(matchedCredentials[i].disclosurePolicy).allowlist))}

\* C17: with allow-list policies { allowlist: [...] } stored and the request
\* signed with x5c, the evaluation passes if and only if the signer's subject
\* appears verbatim in the allow-list ('CN=Trusted RP' passes, 'CN=Other RP'
\* does not), and a failure is a thrown error that names the id of the
\* refusing credential.
C17_AllowListDecides ==
    (OnlyAllowlistPolicies /\ PolicySignedWithX5c) =>
        /\ ThrowModeDone =>
              IF RefusingCredentials = {}
              THEN authorizationOutcome.status = "returned"
              ELSE /\ authorizationOutcome.status = "thrown"
                   /\ \E i \in RefusingCredentials :
                         authorizationOutcome.error.credentialId =
                             matchedCredentials[i].credentialId
        /\ disclosureOutcome.status = "returned" =>
              (Get(disclosureOutcome.result).isValid <=> RefusingCredentials = {})

\* no matched credential has a stored policy
NoStoredPolicy ==
    \A i \in 1..Len(matchedCredentials) : matchedCredentials[i].disclosurePolicy = None

\* C18: when no matched credential carries a stored policy, the throw-mode
\* evaluator returns without throwing, and the diagnostic-mode evaluator
\* called on an x5c-signed request returns isValid true with an empty
\* disclosurePolicies map.
C18_NoPolicyNoRestriction ==
    NoStoredPolicy =>
        /\ ThrowModeDone => authorizationOutcome.status = "returned"
        /\ (DiagnosticModeDone /\ PolicySignedWithX5c) =>
              /\ disclosureOutcome.status = "returned"
              /\ Get(disclosureOutcome.result).isValid
              /\ DOMAIN Get(disclosureOutcome.result).disclosurePolicies = {}

\* the throw-mode half of C18 alone
C18_ThrowModeReturns ==
    (NoStoredPolicy /\ ThrowModeDone) => authorizationOutcome.status = "returned"

-----------------------------------------------------------------------------
(* Properties of mergeJson (checked under SpecMerge)                        *)

MergeDone == typeOf(merged) \notin {"pending", "idle"}

IsDefined(value) == typeOf(value) # "undefined"

\* object, array, or anything else
KindOf(value) == IF typeOf(value) \in {"object", "array"} THEN typeOf(value) ELSE "primitive"

\* C19: with the default configuration mergeJson(target, source) returns the
\* source when it is defined and differs in type from the target, returns
\* null when the source is null, at the root and for a nested field, returns
\* the defined side when exactly one of the two is undefined, and throws in
\* none of these cases.
C19_SourceWinsByDefault ==
    (MergeDone /\ configValue = DefaultConfig) =>
        /\ (/\ IsDefined(sourceValue) /\ IsDefined(targetValue)
            /\ KindOf(sourceValue) # KindOf(targetValue)) => merged = sourceValue
        /\ (sourceValue = Null /\ IsDefined(targetValue)) => merged = Null
        /\ (IsDefined(sourceValue) /\ ~IsDefined(targetValue)) => merged = sourceValue
        /\ (~IsDefined(sourceValue) /\ IsDefined(targetValue)) => merged = targetValue
        /\ (typeOf(sourceValue) = "object" /\ typeOf(targetValue) = "object") =>
              /\ typeOf(merged) = "object"
              /\ \A key \in DOMAIN sourceValue.object :
                    sourceValue.object[key] = Null => merged.object[key] = Null

\* the keys the configuration declares as discriminant of the root array, at
\* the root or, as the array tests write it, under fields['']
DiscriminantOf(c) ==
    IF c.arrayDiscriminant # None THEN c.arrayDiscriminant
    ELSE IF "" \in DOMAIN c.fields THEN c.fields[""].arrayDiscriminant
    ELSE None

IsDiscriminantCall ==
    /\ typeOf(targetValue) = "array"
    /\ typeOf(sourceValue) = "array"
    /\ configValue.arrayStrategy = "merge"
    /\ DiscriminantOf(configValue) # None

TargetItems == targetValue.array
SourceItems == sourceValue.array

\* two items agree on every discriminant key, a missing member being undefined
SameDiscriminant(a, b) ==
    /\ typeOf(a) = "object"
    /\ typeOf(b) = "object"
    /\ \A d \in Elements(Get(DiscriminantOf(configValue))) : Member(a, d) = Member(b, d)

\* the source items that match no target item, in source order
RECURSIVE UnmatchedFrom(_)
UnmatchedFrom(k) ==
    IF k > Len(SourceItems) THEN <<>>
    ELSE IF \E i \in 1..Len(TargetItems) : SameDiscriminant(TargetItems[i], SourceItems[k])
    THEN UnmatchedFrom(k + 1)
    ELSE <<SourceItems[k]>> \o UnmatchedFrom(k + 1)

\* the k-th source item is the only one that matches the i-th target item,
\* and matches no other target item
IsOnlyMatch(i, k) ==
    /\ SameDiscriminant(TargetItems[i], SourceItems[k])
    /\ \A j \in 1..Len(SourceItems) : SameDiscriminant(TargetItems[i], SourceItems[j]) => j = k
    /\ \A h \in 1..Len(TargetItems) : SameDiscriminant(TargetItems[h], SourceItems[k]) => h = i

\* C20: merging arrays by discriminant merges every source item into the
\* target item with the same discriminant values, at that item's index,
\* appends the source items without a match after the target items in source
\* order, and leaves the target items without a match unchanged.
C20_MergeByDiscriminant ==
    (MergeDone /\ IsDiscriminantCall) =>
        /\ typeOf(merged) = "array"
        /\ Len(merged.array) = Len(TargetItems) + Len(UnmatchedFrom(1))
        /\ \A k \in 1..Len(UnmatchedFrom(1)) :
              merged.array[Len(TargetItems) + k] = UnmatchedFrom(1)[k]
        /\ \A i \in 1..Len(TargetItems) :
              IF \E k \in 1..Len(SourceItems) : SameDiscriminant(TargetItems[i], SourceItems[k])
              THEN \A k \in 1..Len(SourceItems) :
                      IsOnlyMatch(i, k) =>
                          /\ typeOf(merged.array[i]) = "object"
                          /\ \A key \in DOMAIN SourceItems[k].object :
                                IsDefined(SourceItems[k].object[key]) =>
                                    merged.array[i].object[key] = SourceItems[k].object[key]
              ELSE merged.array[i] = TargetItems[i]

\* C20 for the configurations that declare the discriminant at the root
C20_RootDiscriminant ==
    configValue.arrayDiscriminant # None => C20_MergeByDiscriminant

-----------------------------------------------------------------------------
(* Further properties of the registration certificate verifier (checked    *)
(* under Spec)                                                              *)

\* the flag is false when the check failed and absent when it passed
FlagIsFalseExactlyWhen(flag, failed) == flag = (IF failed THEN Some(FALSE) ELSE None)

SignatureFailed == cert.jws \in {"invalid", "threw"}

\* C21: a failed signature check does not end the call: when verifyJws throws
\* or reports invalid, the result has isJwsValid false and isValid false, and
\* the subject, freshness and query checks still run afterwards, each setting
\* its own field to false exactly when it fails.
C21_SignatureFailureDoesNotShortCircuit ==
    (ChecksReturned /\ SignatureFailed) =>
        LET r == Get(registrationCertificateResult) IN
        /\ r.isJwsValid = Some(FALSE)
        /\ ~r.isValid
        /\ calls[Len(calls)] = "isDcqlQueryEqualOrSubset"
        /\ FlagIsFalseExactlyWhen(
               r.isAccessCertificateSubjectEqualToRegistrationCertificate,
               CertificateSubject # AccessCertificateSubjectOfRequest)
        /\ FlagIsFalseExactlyWhen(
               r.isTimestampValid,
               IsSome(CertificateIat) /\ Get(CertificateIat) * 1000 >= now)
        /\ FlagIsFalseExactlyWhen(
               r.isRegistrationCertificateQueryEqualOrSubsetOfAuthorizationRequestQuery,
               ~isDcqlQueryEqualOrSubset(Get(request.dcql),
                                         parsedPayloadQuery(Get(cert.payload))))

\* verifyJws threw for a certificate of another relying party: both flags are
\* recorded
C21_ThrewAndSubjectDiffers ==
    /\ ChecksReturned
    /\ cert.jws = "threw"
    /\ CertificateSubject # AccessCertificateSubjectOfRequest
    /\ Get(registrationCertificateResult).isJwsValid = Some(FALSE)
    /\ Get(registrationCertificateResult)
           .isAccessCertificateSubjectEqualToRegistrationCertificate = Some(FALSE)

\* the sub-check fields of a result
SubCheckFields(r) ==
    {r.isDcqlUsed, r.isSignedWithX509, r.isJwsValid,
     r.isAccessCertificateSubjectEqualToRegistrationCertificate, r.isTimestampValid,
     r.isRegistrationCertificateQueryEqualOrSubsetOfAuthorizationRequestQuery}

\* C22: in every result that verifyIfRegistrationCertificate returns, isValid
\* is true if and only if none of the sub-check fields is false.
C22_IsValidAggregatesSubChecks ==
    CallReturned =>
        LET r == Get(registrationCertificateResult) IN
        r.isValid <=> (Some(FALSE) \notin SubCheckFields(r))

\* a certificate issued in the future that passes every other check
C22_OnlyTimestampFailed ==
    /\ ChecksReturned
    /\ LET r == Get(registrationCertificateResult) IN
          /\ ~r.isValid
          /\ r.isTimestampValid = Some(FALSE)
          /\ SubCheckFields(r) = {None, Some(FALSE)}
          /\ r.isJwsValid = None
          /\ r.isAccessCertificateSubjectEqualToRegistrationCertificate = None
          /\ r.isRegistrationCertificateQueryEqualOrSubsetOfAuthorizationRequestQuery = None

\* a certificate that passes every check
C22_EveryCheckPassed ==
    /\ ChecksReturned
    /\ Get(registrationCertificateResult).isValid
    /\ SubCheckFields(Get(registrationCertificateResult)) = {None}

-----------------------------------------------------------------------------
(* Further properties of the disclosure-policy evaluators (checked under   *)
(* SpecPolicy)                                                              *)

\* the clauses recorded for one credential
ClausesOf(entry) ==
    {entry.isAllowListPolicyValid, entry.isRootOfTrustPolicyValid,
     entry.isAttributeBasedAccessControlValid}

\* C23: in the result of the diagnostic evaluator isValid is false whenever a
\* clause recorded for a credential in disclosurePolicies is false, also
\* when the clause of another credential is true.
C23_AnyFalseClauseInvalidates ==
    disclosureOutcome.status = "returned" =>
        LET result == Get(disclosureOutcome.result) IN
        (\E credentialId \in DOMAIN result.disclosurePolicies :
             Some(FALSE) \in ClausesOf(result.disclosurePolicies[credentialId]))
            => ~result.isValid

\* C23 for results in which no recorded clause is true
C23_WithoutTrueClause ==
    disclosureOutcome.status = "returned" =>
        LET result == Get(disclosureOutcome.result) IN
        (/\ \E credentialId \in DOMAIN result.disclosurePolicies :
                Some(FALSE) \in ClausesOf(result.disclosurePolicies[credentialId])
         /\ \A credentialId \in DOMAIN result.disclosurePolicies :
                Some(TRUE) \notin ClausesOf(result.disclosurePolicies[credentialId]))
            => ~result.isValid

-----------------------------------------------------------------------------
(* Properties of the authorization attestation checks (checked under       *)
(* SpecAttestation)                                                         *)

Attestations == attestationRequest.authorizationAttestations

AttestationsVerified == attestationOutcome # None

\* the i-th call of verifyAuthorizationAttestation completed without an error
CompletedWithoutError(i) == Get(attestationOutcome)[i] = "returned"

AttestationSignedWithX5c ==
    /\ attestationRequest.signedAuthorizationRequest # None
    /\ Get(attestationRequest.signedAuthorizationRequest).method = "x5c"

AttestationAccessCertificateSubject ==
    Get(attestationRequest.signedAuthorizationRequest).x5c[1]

\* the attestation passes the checks of the verifier that follow the
\* signature: its sub is the subject of the access certificate and
\* sdJwtService.verify reports it valid
IsVerified(attestation) ==
    /\ attestation.sub = AttestationAccessCertificateSubject
    /\ attestation.sdJwt = "valid"

\* C24: in the attribute-based-access-control check only verified
\* attestations count: the policy is never satisfied by an attestation whose
\* sub differs from the subject of the access certificate or whose SD-JWT
\* verification reports invalid.
C24_OnlyVerifiedAttestationsCount ==
    accessControlOutcome = "true" =>
        \E i \in 1..Len(Attestations) :
            /\ IsVerified(Attestations[i])
            /\ Attestations[i].vct = WantedVct

\* JWS verification of the attestation failed on every trust path the
\* verifier attempts: against trustedCertificates, and against the x5c of
\* the header when that call threw and allowUntrustedSigned is set
SignatureFailedOnEveryPath(attestation) ==
    LET flags == signatureFlags(attestation, attestationRequest.options,
                                attestationRequest.failure)
    IN ~flags.isValidAndTrusted /\ ~flags.isValidButUntrusted

\* C25: verifyAuthorizationAttestation never completes without an error for
\* an attestation whose JWS verification reported invalid or threw on every
\* trust path that was attempted, whatever trustedCertificates and
\* allowUntrustedSigned are.
C25_InvalidSignatureIsFatal ==
    AttestationsVerified =>
        \A i \in 1..Len(Attestations) :
            SignatureFailedOnEveryPath(Attestations[i]) => ~CompletedWithoutError(i)

\* C25 for forged attestations, which sdJwtService.verify refuses
C25_ForgedIsFatal ==
    AttestationsVerified =>
        \A i \in 1..Len(Attestations) :
            Attestations[i].signedBy = "forged" => ~CompletedWithoutError(i)

\* C26: verifyAuthorizationAttestation completes without an error only if
\* the authorization request is signed with signer method x5c and the sub of
\* the attestation equals the subject of the first certificate of the
\* signing chain; an unsigned request, another signer method and a subject
\* mismatch each end the call with a thrown error.
C26_SignedRequestAndSubjectBinding ==
    AttestationsVerified =>
        \A i \in 1..Len(Attestations) :
            CompletedWithoutError(i) =>
                /\ AttestationSignedWithX5c
                /\ Attestations[i].sub = AttestationAccessCertificateSubject

\* of two attestations the one for this relying party is accepted and the
\* one for another relying party ends in the subject error
C26_AcceptedAndRefused ==
    /\ AttestationsVerified
    /\ Len(Attestations) = 2
    /\ CompletedWithoutError(1)
    /\ Attestations[2].sub = OtherSubject
    /\ Get(attestationOutcome)[2] =
           "The Subject of the Authorization Attestation should equal the distinguished of the Relying Party"

\* an unsigned request ends in the error about the missing signature
C26_UnsignedRefused ==
    /\ AttestationsVerified
    /\ attestationRequest.signedAuthorizationRequest = None
    /\ \E i \in 1..Len(Attestations) :
          Get(attestationOutcome)[i] =
              "Authorization request must be signed for the authorization attestation"

-----------------------------------------------------------------------------
(* Properties of the orchestrator over several registration certificates    *)
(* (checked under Spec)                                                     *)

\* the value the orchestrator returns when its loop ends here
HoldsFailedResult ==
    /\ registrationCertificateResult # None
    /\ ~Get(registrationCertificateResult).isValid

\* C27: the orchestrator verifies every registration certificate of the
\* request in list order and its return value accounts for each of them: once
\* a registration certificate has failed a check, the value the orchestrator
\* is going to return never becomes one with isValid true.
C27_EveryCertificateCounts ==
    [][HoldsFailedResult => HoldsFailedResult']_vars

\* every registration certificate of the request is handed to
\* verifyIfRegistrationCertificate, in list order
C27_VerifiedInListOrder ==
    [][(pc = "loop" /\ pc' = "call") =>
          /\ idx' = idx
          /\ isRegistrationCertificate(Get(request.verifier_attestations)[idx])]_vars

-----------------------------------------------------------------------------
(* Dispatch of the throw-mode evaluator (checked under SpecPolicy)          *)

\* the stored policy has one of the three shapes of the policy types:
\* { allowlist }, { rootOfTrust } or { attribute_based_access_control }
HasPolicyShape(p) ==
    \/ Get(p).allowlist # None
    \/ Get(p).rootOfTrust # None
    \/ Get(p).attribute_based_access_control

EndedAsUnsupportedPolicy ==
    /\ authorizationOutcome.status = "thrown"
    /\ authorizationOutcome.error.message = "Found an unsupported disclosure policy"

\* C28: the throw-mode evaluator reports a stored policy as unsupported
\* exactly when it has none of the three shapes; a policy of one of the three
\* shapes goes to its own check and never ends in the unsupported-policy
\* error.
C28_UnsupportedExactlyWhenNoShape ==
    ThrowModeDone =>
        /\ EndedAsUnsupportedPolicy =>
              \E i \in 1..Len(matchedCredentials) :
                  /\ matchedCredentials[i].disclosurePolicy # None
                  /\ ~HasPolicyShape(matchedCredentials[i].disclosurePolicy)
        /\ (/\ Len(matchedCredentials) = 1
            /\ matchedCredentials[1].disclosurePolicy # None
            /\ ~HasPolicyShape(matchedCredentials[1].disclosurePolicy))
              => EndedAsUnsupportedPolicy

\* C28 for the root-of-trust and attribute-based policies
C28_OtherShapesAreDispatched ==
    (ThrowModeDone /\ EndedAsUnsupportedPolicy) =>
        \E i \in 1..Len(matchedCredentials) :
            /\ matchedCredentials[i].disclosurePolicy # None
            /\ Get(matchedCredentials[i].disclosurePolicy).rootOfTrust = None
            /\ ~Get(matchedCredentials[i].disclosurePolicy).attribute_based_access_control

-----------------------------------------------------------------------------
(* Order of the reference query (checked under SpecDcql)                    *)

\* the sequences that hold the elements of s in another order
Reordered(s) ==
    {[i \in 1..Len(s) |-> s[p[i]]] :
        p \in {q \in [1..Len(s) -> 1..Len(s)] :
                  \A i, j \in 1..Len(s) : q[i] = q[j] => i = j}}

\* the entry with its claims in another order
WithReorderedClaims(entry) ==
    IF entry.claims = None THEN {entry}
    ELSE {[entry EXCEPT !.claims = Some(claims)] : claims \in Reordered(Get(entry.claims))}

\* the reference queries that differ from q in the order of the credential
\* entries and in the order of the claims inside the entries
ReorderedReferences(q) ==
    UNION {{Query(credentials, q.credential_sets) :
               credentials \in
                   {c \in [1..Len(reordered) ->
                              UNION {WithReorderedClaims(reordered[i]) :
                                        i \in 1..Len(reordered)}] :
                       \A i \in 1..Len(reordered) : c[i] \in WithReorderedClaims(reordered[i])}} :
           reordered \in Reordered(q.credentials)}

\* C29: the result of isDcqlQueryEqualOrSubset depends only on whether a
\* fully matching reference candidate exists for each request entry:
\* permuting the credential entries of the reference query, or the claims
\* inside a reference entry, never changes the returned boolean.
C29_ReferenceOrderIsIrrelevant ==
    /\ PureReturned =>
          \A reference \in ReorderedReferences(rcq) :
              isDcqlQueryEqualOrSubset(arq, reference) = pureResult
    /\ ContextReturned =>
          \A reference \in ReorderedReferences(rcq) :
              isDcqlQueryEqualOrSubsetWithContext(arq, reference) = ctxResult

\* a request accepted although the first of two candidates does not cover
\* its claims
C29_SecondCandidateCovers ==
    /\ PureReturned
    /\ pureResult
    /\ Len(arq.credentials) = 1
    /\ Len(rcq.credentials) = 2
    /\ arq.credentials[1].format = "dc+sd-jwt"
    /\ arq.credentials[1].claims = Some(<<GivenName>>)
    /\ rcq.credentials[1].claims = Some(<<FamilyName>>)
    /\ rcq.credentials[2].claims = Some(<<FamilyName, GivenName>>)


----------------------------------------------------------------------------
\* The claim rules of baseMergeConfig

\* the claims of the merged parent and child, and those of a metadata
ClaimsOf(metadata) == Member(metadata, "claims").array
ParentClaims == ClaimsOf(targetValue)
ChildClaims == ClaimsOf(sourceValue)

\* the members the rules guard, and the values they keep from changing
GuardedKeys == {"sd", "mandatory"}
IsGuarded(key, value) ==
    \/ key = "sd" /\ (value = JsonString("always") \/ value = JsonString("never"))
    \/ key = "mandatory" /\ value = JsonBoolean(TRUE)

\* the parent claim the k-th child claim is matched to by path: the first one
\* with that path, 0 when the parent has none
MatchedParent(k) ==
    IF \E i \in 1..Len(ParentClaims) :
           Member(ParentClaims[i], "path") = Member(ChildClaims[k], "path")
    THEN CHOOSE i \in 1..Len(ParentClaims) :
             /\ Member(ParentClaims[i], "path") = Member(ChildClaims[k], "path")
             /\ \A j \in 1..(i - 1) :
                    Member(ParentClaims[j], "path") # Member(ChildClaims[k], "path")
    ELSE 0

\* the k-th child claim gives the guarded member key of its parent claim
\* another value
ChangesGuarded(k, key) ==
    /\ MatchedParent(k) # 0
    /\ IsGuarded(key, Member(ParentClaims[MatchedParent(k)], key))
    /\ typeOf(Member(ChildClaims[k], key)) # "undefined"
    /\ Member(ChildClaims[k], key) # Member(ParentClaims[MatchedParent(k)], key)

ChildChangesGuarded ==
    \E k \in 1..Len(ChildClaims) : \E key \in GuardedKeys : ChangesGuarded(k, key)

\* C30: when a parent and a child metadata are merged under baseMergeConfig,
\* a result keeps, for every claim of the parent, an sd of 'always' or of
\* 'never' and a mandatory of true, and a child that gives one of these
\* members of a claim matched by path another value makes the merge throw, so
\* that there is no result.
C30_GuardedClaimMembersAreKept ==
    MergeDone =>
        /\ ChildChangesGuarded => typeOf(merged) = "thrown"
        /\ typeOf(merged) # "thrown" =>
               /\ Len(ClaimsOf(merged)) >= Len(ParentClaims)
               /\ \A i \in 1..Len(ParentClaims) : \A key \in GuardedKeys :
                      IsGuarded(key, Member(ParentClaims[i], key)) =>
                          Member(ClaimsOf(merged)[i], key) = Member(ParentClaims[i], key)

\* a child claim matched by path adds mandatory to a parent claim whose sd is
\* 'always', and the result has both
C30_MatchedClaimKeepsSd ==
    /\ MergeDone
    /\ typeOf(merged) # "thrown"
    /\ \E k \in 1..Len(ChildClaims) :
           /\ MatchedParent(k) # 0
           /\ Member(ParentClaims[MatchedParent(k)], "sd") = JsonString("always")
           /\ typeOf(Member(ParentClaims[MatchedParent(k)], "mandatory")) = "undefined"
           /\ Member(ChildClaims[k], "mandatory") = JsonBoolean(FALSE)
           /\ Member(ClaimsOf(merged)[MatchedParent(k)], "sd") = JsonString("always")
           /\ Member(ClaimsOf(merged)[MatchedParent(k)], "mandatory") = JsonBoolean(FALSE)

\* a child claim sets the mandatory of its parent claim from true to false
C30_ChildUnsetsMandatory ==
    /\ \E k \in 1..Len(ChildClaims) : ChangesGuarded(k, "mandatory")
    /\ merged = Thrown("Constraint violation: 'mandatory' cannot change from true to false")

\* a child claim sets the sd of its parent claim from 'never' to 'always'
C30_ChildChangesSd ==
    /\ \E k \in 1..Len(ChildClaims) : ChangesGuarded(k, "sd")
    /\ merged = Thrown("Constraint violation: 'sd' cannot change from 'never'")

====
